---- MODULE Spec2Model ----
(***************************************************************************)
(* Field value resolution of IEEMLECTOR: the text-to-number converter      *)
(* (FLUJO4_VALIDACION/convertidor_texto_numeros.py) and the export         *)
(* pipeline that pre-validates locally and escalates the rest              *)
(* (FLUJO3_EXTRACCION/exportador.py).                                      *)
(*                                                                         *)
(* A Python str is a sequence of one-character strings.  Optional[int] is  *)
(* None == <<>> or <<n>>.  A confidence is an integer number of            *)
(* 1/Escala units, Escala being a common denominator of every quotient     *)
(* dist/len(word) (len <= 13) and of the decimal literals of the code.     *)
(***************************************************************************)
EXTENDS Integers, Sequences, FiniteSets, TLC

None == <<>>
Some(n) == <<n>>

Min2(a, b) == IF a <= b THEN a ELSE b
Max2(a, b) == IF a >= b THEN a ELSE b

\* lcm(1..13, 20): 1.0 is Escala, 0.60 is 3*Escala/5, ...
Escala == 8 * 9 * 5 * 7 * 11 * 13
Dec(centesimas) == (centesimas * Escala) \div 100

(***************************************************************************)
(* Characters                                                              *)
(***************************************************************************)
Minusculas == <<"a","b","c","d","e","f","g","h","i","j","k","l","m",
                "n","o","p","q","r","s","t","u","v","w","x","y","z">>
Mayusculas == <<"A","B","C","D","E","F","G","H","I","J","K","L","M",
                "N","O","P","Q","R","S","T","U","V","W","X","Y","Z">>
Digitos == {"0","1","2","3","4","5","6","7","8","9"}
\* Precomposed accented letters of Spanish, lower and upper case.
AcentuadasMin == <<"á","é","í","ó","ú","ü","ñ">>
AcentuadasMay == <<"Á","É","Í","Ó","Ú","Ü","Ñ">>
\* Combining marks (category Mn), each one character, written by code point.
Acute == "U+0301"
Dieresis == "U+0308"
Tilde == "U+0303"
MarcasMn == {Acute, Dieresis, Tilde}
\* What str.strip() strips and the regex class \s matches.
Espacios == {" ", "\t", "\n"}

RangoDe(s) == {s[i] : i \in 1..Len(s)}
LetrasAZ == RangoDe(Minusculas)

\* str.lower() on one character.
lower_c(c) ==
    IF \E i \in 1..Len(Mayusculas) : Mayusculas[i] = c
    THEN Minusculas[CHOOSE i \in 1..Len(Mayusculas) : Mayusculas[i] = c]
    ELSE IF \E i \in 1..Len(AcentuadasMay) : AcentuadasMay[i] = c
    THEN AcentuadasMin[CHOOSE i \in 1..Len(AcentuadasMay) : AcentuadasMay[i] = c]
    ELSE c

\* unicodedata.normalize('NFD', c) on one character: base letter + mark.
nfd_c(c) ==
    CASE c = "á" -> <<"a", Acute>>
      [] c = "é" -> <<"e", Acute>>
      [] c = "í" -> <<"i", Acute>>
      [] c = "ó" -> <<"o", Acute>>
      [] c = "ú" -> <<"u", Acute>>
      [] c = "ü" -> <<"u", Dieresis>>
      [] c = "ñ" -> <<"n", Tilde>>
      [] c = "Á" -> <<"A", Acute>>
      [] c = "É" -> <<"E", Acute>>
      [] c = "Í" -> <<"I", Acute>>
      [] c = "Ó" -> <<"O", Acute>>
      [] c = "Ú" -> <<"U", Acute>>
      [] c = "Ü" -> <<"U", Dieresis>>
      [] c = "Ñ" -> <<"N", Tilde>>
      [] OTHER -> <<c>>

(***************************************************************************)
(* str helpers                                                             *)
(***************************************************************************)
RECURSIVE lstrip(_)
lstrip(s) == IF s # <<>> /\ Head(s) \in Espacios THEN lstrip(Tail(s)) ELSE s

RECURSIVE rstrip(_)
rstrip(s) ==
    IF s # <<>> /\ s[Len(s)] \in Espacios THEN rstrip(SubSeq(s, 1, Len(s) - 1)) ELSE s

strip(s) == rstrip(lstrip(s))

lower(s) == [i \in 1..Len(s) |-> lower_c(s[i])]

RECURSIVE NFD(_)
NFD(s) == IF s = <<>> THEN <<>> ELSE nfd_c(Head(s)) \o NFD(Tail(s))

\* re.sub(r'\s+', ' ', s): every maximal run of whitespace becomes one space.
RECURSIVE colapsar_espacios(_)
colapsar_espacios(s) ==
    IF s = <<>> THEN <<>>
    ELSE IF Head(s) \in Espacios
    THEN <<" ">> \o colapsar_espacios(lstrip(s))
    ELSE <<Head(s)>> \o colapsar_espacios(Tail(s))

\* str.split(): the maximal runs of non-whitespace, in order.
RECURSIVE split_desde(_, _)
split_desde(s, actual) ==
    IF s = <<>> THEN (IF actual = <<>> THEN <<>> ELSE <<actual>>)
    ELSE IF Head(s) \in Espacios
    THEN (IF actual = <<>> THEN <<>> ELSE <<actual>>) \o split_desde(Tail(s), <<>>)
    ELSE split_desde(Tail(s), Append(actual, Head(s)))

split(s) == split_desde(s, <<>>)

\* str.replace(' y ', ' '): occurrences matched left to right, without overlap.
RECURSIVE replace_y(_)
replace_y(s) ==
    IF Len(s) < 3 THEN s
    ELSE IF SubSeq(s, 1, 3) = <<" ", "y", " ">>
    THEN <<" ">> \o replace_y(SubSeq(s, 4, Len(s)))
    ELSE <<Head(s)>> \o replace_y(Tail(s))

(***************************************************************************)
(* ConvertidorTextoNumeros                                                 *)
(***************************************************************************)
\* PALABRAS, in the dict's insertion order (the order .items() iterates it).
PALABRAS ==
  <<
     [palabra |-> <<"c","e","r","o">>, valor |-> 0],
     [palabra |-> <<"u","n","o">>, valor |-> 1],
     [palabra |-> <<"u","n","a">>, valor |-> 1],
     [palabra |-> <<"d","o","s">>, valor |-> 2],
     [palabra |-> <<"t","r","e","s">>, valor |-> 3],
     [palabra |-> <<"c","u","a","t","r","o">>, valor |-> 4],
     [palabra |-> <<"c","i","n","c","o">>, valor |-> 5],
     [palabra |-> <<"s","e","i","s">>, valor |-> 6],
     [palabra |-> <<"s","i","e","t","e">>, valor |-> 7],
     [palabra |-> <<"o","c","h","o">>, valor |-> 8],
     [palabra |-> <<"n","u","e","v","e">>, valor |-> 9],
     [palabra |-> <<"d","i","e","z">>, valor |-> 10],
     [palabra |-> <<"o","n","c","e">>, valor |-> 11],
     [palabra |-> <<"d","o","c","e">>, valor |-> 12],
     [palabra |-> <<"t","r","e","c","e">>, valor |-> 13],
     [palabra |-> <<"c","a","t","o","r","c","e">>, valor |-> 14],
     [palabra |-> <<"q","u","i","n","c","e">>, valor |-> 15],
     [palabra |-> <<"d","i","e","c","i","s","e","i","s">>, valor |-> 16],
     [palabra |-> <<"d","i","e","c","i","s","i","e","t","e">>, valor |-> 17],
     [palabra |-> <<"d","i","e","c","i","o","c","h","o">>, valor |-> 18],
     [palabra |-> <<"d","i","e","c","i","n","u","e","v","e">>, valor |-> 19],
     [palabra |-> <<"v","e","i","n","t","e">>, valor |-> 20],
     [palabra |-> <<"v","e","i","n","t","i","u","n","o">>, valor |-> 21],
     [palabra |-> <<"v","e","i","n","t","i","u","n","a">>, valor |-> 21],
     [palabra |-> <<"v","e","i","n","t","i","d","o","s">>, valor |-> 22],
     [palabra |-> <<"v","e","i","n","t","i","t","r","e","s">>, valor |-> 23],
     [palabra |-> <<"v","e","i","n","t","i","c","u","a","t","r","o">>, valor |-> 24],
     [palabra |-> <<"v","e","i","n","t","i","c","i","n","c","o">>, valor |-> 25],
     [palabra |-> <<"v","e","i","n","t","i","s","e","i","s">>, valor |-> 26],
     [palabra |-> <<"v","e","i","n","t","i","s","i","e","t","e">>, valor |-> 27],
     [palabra |-> <<"v","e","i","n","t","i","o","c","h","o">>, valor |-> 28],
     [palabra |-> <<"v","e","i","n","t","i","n","u","e","v","e">>, valor |-> 29],
     [palabra |-> <<"t","r","e","i","n","t","a">>, valor |-> 30],
     [palabra |-> <<"c","u","a","r","e","n","t","a">>, valor |-> 40],
     [palabra |-> <<"c","i","n","c","u","e","n","t","a">>, valor |-> 50],
     [palabra |-> <<"s","e","s","e","n","t","a">>, valor |-> 60],
     [palabra |-> <<"s","e","t","e","n","t","a">>, valor |-> 70],
     [palabra |-> <<"o","c","h","e","n","t","a">>, valor |-> 80],
     [palabra |-> <<"n","o","v","e","n","t","a">>, valor |-> 90],
     [palabra |-> <<"c","i","e","n">>, valor |-> 100],
     [palabra |-> <<"c","i","e","n","t","o">>, valor |-> 100],
     [palabra |-> <<"d","o","s","c","i","e","n","t","o","s">>, valor |-> 200],
     [palabra |-> <<"d","o","s","c","i","e","n","t","a","s">>, valor |-> 200],
     [palabra |-> <<"t","r","e","s","c","i","e","n","t","o","s">>, valor |-> 300],
     [palabra |-> <<"t","r","e","s","c","i","e","n","t","a","s">>, valor |-> 300],
     [palabra |-> <<"c","u","a","t","r","o","c","i","e","n","t","o","s">>, valor |-> 400],
     [palabra |-> <<"c","u","a","t","r","o","c","i","e","n","t","a","s">>, valor |-> 400],
     [palabra |-> <<"q","u","i","n","i","e","n","t","o","s">>, valor |-> 500],
     [palabra |-> <<"q","u","i","n","i","e","n","t","a","s">>, valor |-> 500],
     [palabra |-> <<"s","e","i","s","c","i","e","n","t","o","s">>, valor |-> 600],
     [palabra |-> <<"s","e","i","s","c","i","e","n","t","a","s">>, valor |-> 600],
     [palabra |-> <<"s","e","t","e","c","i","e","n","t","o","s">>, valor |-> 700],
     [palabra |-> <<"s","e","t","e","c","i","e","n","t","a","s">>, valor |-> 700],
     [palabra |-> <<"o","c","h","o","c","i","e","n","t","o","s">>, valor |-> 800],
     [palabra |-> <<"o","c","h","o","c","i","e","n","t","a","s">>, valor |-> 800],
     [palabra |-> <<"n","o","v","e","c","i","e","n","t","o","s">>, valor |-> 900],
     [palabra |-> <<"n","o","v","e","c","i","e","n","t","a","s">>, valor |-> 900]
  >>

EnPALABRAS(p) == \E i \in 1..Len(PALABRAS) : PALABRAS[i].palabra = p
ValorDe(p) == PALABRAS[CHOOSE i \in 1..Len(PALABRAS) : PALABRAS[i].palabra = p].valor

\* normalizar without the NFD decomposition: accented letters are dropped.
normalizar_sin_nfd(texto) ==
    LET t1 == strip(lower(texto))
        t3 == SelectSeq(t1, LAMBDA c : c \notin MarcasMn)
        t4 == SelectSeq(t3, LAMBDA c : c \in LetrasAZ \/ c \in Espacios)
    IN  strip(colapsar_espacios(t4))

\* normalizar without the strip that follows the collapse of whitespace.
normalizar_sin_recorte(texto) ==
    LET t1 == strip(lower(texto))
        t2 == NFD(t1)
        t3 == SelectSeq(t2, LAMBDA c : c \notin MarcasMn)
        t4 == SelectSeq(t3, LAMBDA c : c \in LetrasAZ \/ c \in Espacios)
    IN  colapsar_espacios(t4)

normalizar(texto) ==
    LET t1 == strip(lower(texto))
        t2 == NFD(t1)
        t3 == SelectSeq(t2, LAMBDA c : c \notin MarcasMn)
        t4 == SelectSeq(t3, LAMBDA c : c \in LetrasAZ \/ c \in Espacios)
    IN  strip(colapsar_espacios(t4))

\* The loop of _parsear_compuesto from palabras[k] on: None at the first word
\* that is not in PALABRAS, else the total (None when nothing was found).
RECURSIVE sumar_exactas(_, _, _, _)
sumar_exactas(palabras, k, total, encontro_algo) ==
    IF k > Len(palabras) THEN (IF encontro_algo THEN Some(total) ELSE None)
    ELSE IF palabras[k] = <<>> THEN sumar_exactas(palabras, k + 1, total, encontro_algo)
    ELSE IF EnPALABRAS(palabras[k])
    THEN sumar_exactas(palabras, k + 1, total + ValorDe(palabras[k]), TRUE)
    ELSE None

\* _parsear_compuesto without the removal of the connective.
_parsear_compuesto_con_y(texto_normalizado) ==
    LET palabras == split(texto_normalizado)
    IN  IF palabras = <<>> THEN None ELSE sumar_exactas(palabras, 1, 0, FALSE)

_parsear_compuesto(texto_normalizado) ==
    LET palabras == split(replace_y(texto_normalizado))
    IN  IF palabras = <<>> THEN None ELSE sumar_exactas(palabras, 1, 0, FALSE)

convertir(texto) ==
    LET normalizado == normalizar(texto)
    IN  IF normalizado = <<>> THEN None
        ELSE IF EnPALABRAS(normalizado) THEN Some(ValorDe(normalizado))
        ELSE _parsear_compuesto(normalizado)

\* The row in which a substitution costs 1 even between equal characters.
RECURSIVE lev_fila_sustituye_siempre(_, _, _, _)
lev_fila_sustituye_siempre(prev_row, c1, s2, curr_row) ==
    IF Len(curr_row) = Len(s2) + 1 THEN curr_row
    ELSE LET j == Len(curr_row)
             insercion == prev_row[j + 1] + 1
             eliminacion == curr_row[j] + 1
             sustitucion == prev_row[j] + 1
         IN  lev_fila_sustituye_siempre(prev_row, c1, s2,
                      Append(curr_row, Min2(Min2(insercion, eliminacion), sustitucion)))

\* One row of the dynamic programme: curr_row grown from [i + 1] to full length.
RECURSIVE lev_fila(_, _, _, _)
lev_fila(prev_row, c1, s2, curr_row) ==
    IF Len(curr_row) = Len(s2) + 1 THEN curr_row
    ELSE LET j == Len(curr_row)
             insercion == prev_row[j + 1] + 1
             eliminacion == curr_row[j] + 1
             sustitucion == prev_row[j] + (IF c1 # s2[j] THEN 1 ELSE 0)
         IN  lev_fila(prev_row, c1, s2,
                      Append(curr_row, Min2(Min2(insercion, eliminacion), sustitucion)))

RECURSIVE lev_filas(_, _, _, _)
lev_filas(s1, s2, i, prev_row) ==
    IF i > Len(s1) THEN prev_row[Len(prev_row)]
    ELSE lev_filas(s1, s2, i + 1, lev_fila(prev_row, s1[i], s2, <<i>>))

levenshtein_ord(s1, s2) ==
    IF Len(s2) = 0 THEN Len(s1)
    ELSE lev_filas(s1, s2, 1, [k \in 1..(Len(s2) + 1) |-> k - 1])

levenshtein(s1, s2) ==
    IF Len(s1) < Len(s2) THEN levenshtein_ord(s2, s1) ELSE levenshtein_ord(s1, s2)

\* huellas: the entries of PALABRAS that share (len, first letter, last letter),
\* in insertion order.
Huella(p) == <<Len(p), p[1], p[Len(p)]>>
huellas(h) == SelectSeq(PALABRAS, LAMBDA e : Huella(e.palabra) = h)

\* The length filter without its lower bound.
FueraDeRatio_sin_minimo(palabra, ref_palabra) ==
    100 * Len(palabra) > 150 * Max2(Len(ref_palabra), 1)

\* ratio_len < 0.65 or ratio_len > 1.50, on the quotient len(palabra)/len(ref).
FueraDeRatio(palabra, ref_palabra) ==
    LET lr == Max2(Len(ref_palabra), 1)
    IN  100 * Len(palabra) < 65 * lr \/ 100 * Len(palabra) > 150 * lr

\* candidatos: (ref_palabra, ref_valor, dist) of every entry within the ratio.
candidatos_de(palabra) ==
    LET dentro == SelectSeq(PALABRAS, LAMBDA e : ~FueraDeRatio(palabra, e.palabra))
    IN  [i \in 1..Len(dentro) |->
            [ref_palabra |-> dentro[i].palabra, ref_valor |-> dentro[i].valor,
             dist |-> levenshtein(palabra, dentro[i].palabra)]]

\* The last entry of minimum distance in insertion order.
mejor_de_ultimo(candidatos) ==
    candidatos[CHOOSE i \in 1..Len(candidatos) :
                  /\ \A k \in 1..Len(candidatos) : candidatos[i].dist <= candidatos[k].dist
                  /\ \A k \in (i + 1)..Len(candidatos) : candidatos[k].dist > candidatos[i].dist]

\* candidatos.sort(key=dist)[0]: list.sort is stable, so the first entry of
\* minimum distance in insertion order.
mejor_de(candidatos) ==
    candidatos[CHOOSE i \in 1..Len(candidatos) :
                  /\ \A k \in 1..Len(candidatos) : candidatos[i].dist <= candidatos[k].dist
                  /\ \A k \in 1..(i - 1) : candidatos[k].dist > candidatos[i].dist]

\* umbral_de without the 35% of the word's length.
umbral_de_fijo(ref_palabra) == 2

\* max(2, int(len(ref_palabra) * 0.35))
umbral_de(ref_palabra) == Max2(2, (Len(ref_palabra) * 35) \div 100)

Res(valor, conf) == [valor |-> valor, conf |-> conf]

\* The fallback that takes the first entry of an ambiguous fingerprint.
fallback_huella_primera(palabra) ==
    IF Len(palabra) >= 2 /\ Len(huellas(Huella(palabra))) >= 1
    THEN Res(Some(huellas(Huella(palabra))[1].valor), Dec(65))
    ELSE Res(None, 0)

\* The fingerprint fallback of _fuzzy_palabra.
fallback_huella(palabra) ==
    IF Len(palabra) >= 2 /\ Len(huellas(Huella(palabra))) = 1
    THEN Res(Some(huellas(Huella(palabra))[1].valor), Dec(65))
    ELSE Res(None, 0)

\* _fuzzy_palabra that tolerates a single edit only.
_fuzzy_palabra_estricta(palabra) ==
    IF palabra = <<>> THEN Res(None, 0)
    ELSE LET candidatos == candidatos_de(palabra)
         IN  IF candidatos = <<>> THEN Res(None, 0)
             ELSE LET mejor == mejor_de(candidatos)
                      ref_palabra == mejor.ref_palabra
                      base == Max2(Dec(50),
                                   Escala - (mejor.dist * Escala) \div Max2(Len(ref_palabra), 1))
                      conf == IF /\ Len(palabra) = Len(ref_palabra)
                                 /\ palabra[1] = ref_palabra[1]
                                 /\ palabra[Len(palabra)] = ref_palabra[Len(ref_palabra)]
                              THEN Min2(Escala, base + Dec(10))
                              ELSE base
                  IN  IF mejor.dist > 1
                      THEN fallback_huella(palabra)
                      ELSE Res(Some(mejor.ref_valor), conf)

_fuzzy_palabra(palabra) ==
    IF palabra = <<>> THEN Res(None, 0)
    ELSE LET candidatos == candidatos_de(palabra)
         IN  IF candidatos = <<>> THEN Res(None, 0)
             ELSE LET mejor == mejor_de(candidatos)
                      ref_palabra == mejor.ref_palabra
                      base == Max2(Dec(50),
                                   Escala - (mejor.dist * Escala) \div Max2(Len(ref_palabra), 1))
                      conf == IF /\ Len(palabra) = Len(ref_palabra)
                                 /\ palabra[1] = ref_palabra[1]
                                 /\ palabra[Len(palabra)] = ref_palabra[Len(ref_palabra)]
                              THEN Min2(Escala, base + Dec(10))
                              ELSE base
                  IN  IF mejor.dist > umbral_de(ref_palabra)
                      THEN fallback_huella(palabra)
                      ELSE Res(Some(mejor.ref_valor), conf)

\* The loop that, at a word it cannot resolve, gives up with the confidence
\* reached so far.
RECURSIVE sumar_fuzzy_conserva(_, _, _, _, _)
sumar_fuzzy_conserva(palabras, k, total, confianza_min, encontro_algo) ==
    IF k > Len(palabras)
    THEN (IF encontro_algo THEN Res(Some(total), confianza_min) ELSE Res(None, 0))
    ELSE IF EnPALABRAS(palabras[k])
    THEN sumar_fuzzy_conserva(palabras, k + 1, total + ValorDe(palabras[k]), confianza_min, TRUE)
    ELSE LET r == _fuzzy_palabra(palabras[k])
         IN  IF r.valor # None
             THEN sumar_fuzzy_conserva(palabras, k + 1, total + r.valor[1],
                                       Min2(confianza_min, r.conf), TRUE)
             ELSE Res(None, confianza_min)

\* The multi-word loop of convertir_fuzzy from palabras[k] on.
RECURSIVE sumar_fuzzy(_, _, _, _, _)
sumar_fuzzy(palabras, k, total, confianza_min, encontro_algo) ==
    IF k > Len(palabras)
    THEN (IF encontro_algo THEN Res(Some(total), confianza_min) ELSE Res(None, 0))
    ELSE IF EnPALABRAS(palabras[k])
    THEN sumar_fuzzy(palabras, k + 1, total + ValorDe(palabras[k]), confianza_min, TRUE)
    ELSE LET r == _fuzzy_palabra(palabras[k])
         IN  IF r.valor # None
             THEN sumar_fuzzy(palabras, k + 1, total + r.valor[1],
                              Min2(confianza_min, r.conf), TRUE)
             ELSE Res(None, 0)

\* convertir_fuzzy that skips the words it cannot resolve.
convertir_fuzzy_parcial(texto) ==
    LET normalizado == normalizar(texto)
        resultado_exacto == convertir(texto)
        palabras == SelectSeq(split(replace_y(normalizado)),
                              LAMBDA p : p # <<>> /\ (EnPALABRAS(p) \/ _fuzzy_palabra(p).valor # None))
    IN  IF normalizado = <<>> THEN Res(None, 0)
        ELSE IF resultado_exacto # None THEN Res(resultado_exacto, Escala)
        ELSE IF palabras = <<>> THEN Res(None, 0)
        ELSE IF Len(palabras) = 1 THEN _fuzzy_palabra(palabras[1])
        ELSE sumar_fuzzy(palabras, 1, 0, Escala, FALSE)

convertir_fuzzy(texto) ==
    LET normalizado == normalizar(texto)
        resultado_exacto == convertir(texto)
        palabras == SelectSeq(split(replace_y(normalizado)), LAMBDA p : p # <<>>)
    IN  IF normalizado = <<>> THEN Res(None, 0)
        ELSE IF resultado_exacto # None THEN Res(resultado_exacto, Escala)
        ELSE IF palabras = <<>> THEN Res(None, 0)
        ELSE IF Len(palabras) = 1 THEN _fuzzy_palabra(palabras[1])
        ELSE sumar_fuzzy(palabras, 1, 0, Escala, FALSE)

\* int() of a non-empty string of decimal digits.
DigitoValor(c) ==
    CASE c = "0" -> 0 [] c = "1" -> 1 [] c = "2" -> 2 [] c = "3" -> 3 [] c = "4" -> 4
      [] c = "5" -> 5 [] c = "6" -> 6 [] c = "7" -> 7 [] c = "8" -> 8 [] c = "9" -> 9

RECURSIVE int_de(_, _)
int_de(s, acc) == IF s = <<>> THEN acc ELSE int_de(Tail(s), 10 * acc + DigitoValor(Head(s)))

_extraer_digito(texto_digito) ==
    LET solo_nums == SelectSeq(texto_digito, LAMBDA c : c \in Digitos)
    IN  IF texto_digito = <<>> THEN None
        ELSE IF solo_nums # <<>> THEN Some(int_de(solo_nums, 0))
        ELSE None

\* The result dict of validar_campo without 'detalle' (a message for the log).
Campo(valor, confianza, metodo) == [valor |-> valor, confianza |-> confianza, metodo |-> metodo]

\* validar_campo with the digit winning a disagreement in the exact tier.
validar_campo_digito_manda(texto_letra, texto_digito) ==
    LET digito_int == _extraer_digito(texto_digito)
        texto_int == convertir(texto_letra)
        fuzzy == convertir_fuzzy(texto_letra)
    IN  IF texto_int # None
        THEN IF digito_int # None /\ texto_int = digito_int
             THEN Campo(texto_int, Escala, "texto_exacto_coincide")
             ELSE Campo(IF digito_int # None THEN digito_int ELSE texto_int,
                        Escala, "texto_exacto_prioridad")
        ELSE IF fuzzy.valor # None /\ fuzzy.conf >= Dec(60)
        THEN IF digito_int # None /\ fuzzy.valor = digito_int
             THEN Campo(fuzzy.valor, Min2(fuzzy.conf, Dec(95)), "fuzzy_coincide")
             ELSE Campo(fuzzy.valor, Min2(fuzzy.conf, Dec(85)), "fuzzy_prioridad")
        ELSE IF digito_int # None
        THEN Campo(digito_int, 0, "necesita_ia")
        ELSE Campo(None, 0, "necesita_ia")

\* validar_campo with the digit winning a disagreement in the fuzzy tier.
validar_campo_fuzzy_cede(texto_letra, texto_digito) ==
    LET digito_int == _extraer_digito(texto_digito)
        texto_int == convertir(texto_letra)
        fuzzy == convertir_fuzzy(texto_letra)
    IN  IF texto_int # None
        THEN IF digito_int # None /\ texto_int = digito_int
             THEN Campo(texto_int, Escala, "texto_exacto_coincide")
             ELSE Campo(texto_int, Escala, "texto_exacto_prioridad")
        ELSE IF fuzzy.valor # None /\ fuzzy.conf >= Dec(60)
        THEN IF digito_int # None /\ fuzzy.valor = digito_int
             THEN Campo(fuzzy.valor, Min2(fuzzy.conf, Dec(95)), "fuzzy_coincide")
             ELSE Campo(IF digito_int # None THEN digito_int ELSE fuzzy.valor,
                        Min2(fuzzy.conf, Dec(85)), "fuzzy_prioridad")
        ELSE IF digito_int # None
        THEN Campo(digito_int, 0, "necesita_ia")
        ELSE Campo(None, 0, "necesita_ia")

\* validar_campo without the caps on the confidence of the fuzzy tier.
validar_campo_sin_tope(texto_letra, texto_digito) ==
    LET digito_int == _extraer_digito(texto_digito)
        texto_int == convertir(texto_letra)
        fuzzy == convertir_fuzzy(texto_letra)
    IN  IF texto_int # None
        THEN IF digito_int # None /\ texto_int = digito_int
             THEN Campo(texto_int, Escala, "texto_exacto_coincide")
             ELSE Campo(texto_int, Escala, "texto_exacto_prioridad")
        ELSE IF fuzzy.valor # None /\ fuzzy.conf >= Dec(60)
        THEN IF digito_int # None /\ fuzzy.valor = digito_int
             THEN Campo(fuzzy.valor, fuzzy.conf, "fuzzy_coincide")
             ELSE Campo(fuzzy.valor, fuzzy.conf, "fuzzy_prioridad")
        ELSE IF digito_int # None
        THEN Campo(digito_int, 0, "necesita_ia")
        ELSE Campo(None, 0, "necesita_ia")

validar_campo(texto_letra, texto_digito) ==
    LET digito_int == _extraer_digito(texto_digito)
        texto_int == convertir(texto_letra)
        fuzzy == convertir_fuzzy(texto_letra)
    IN  IF texto_int # None
        THEN IF digito_int # None /\ texto_int = digito_int
             THEN Campo(texto_int, Escala, "texto_exacto_coincide")
             ELSE Campo(texto_int, Escala, "texto_exacto_prioridad")
        ELSE IF fuzzy.valor # None /\ fuzzy.conf >= Dec(60)
        THEN IF digito_int # None /\ fuzzy.valor = digito_int
             THEN Campo(fuzzy.valor, Min2(fuzzy.conf, Dec(95)), "fuzzy_coincide")
             ELSE Campo(fuzzy.valor, Min2(fuzzy.conf, Dec(85)), "fuzzy_prioridad")
        ELSE IF digito_int # None
        THEN Campo(digito_int, 0, "necesita_ia")
        ELSE Campo(None, 0, "necesita_ia")

(***************************************************************************)
(* exportador.py                                                           *)
(***************************************************************************)
_CONFIANZA_MINIMA == Dec(75)
_CONVERTIDOR_DISPONIBLE == TRUE

\* The regex class [a-záéíóúüñA-ZÁÉÍÓÚÜÑ] of _separar_letra_y_digito.
LetrasSeparar ==
    LetrasAZ \cup RangoDe(Mayusculas) \cup RangoDe(AcentuadasMin) \cup RangoDe(AcentuadasMay)

\* A looser test: half of the characters are digits.
es_digito_puro_mitad(c) ==
    LET solo_nums == SelectSeq(c, LAMBDA x : x \in Digitos)
    IN  solo_nums # <<>> /\ 2 * Len(solo_nums) >= Len(c)

\* len(solo_nums) >= len(c) * 0.7
es_digito_puro(c) ==
    LET solo_nums == SelectSeq(c, LAMBDA x : x \in Digitos)
    IN  solo_nums # <<>> /\ 10 * Len(solo_nums) >= 7 * Len(c)

\* The loop of _separar_letra_y_digito from contenidos[k] on; texto_letra and
\* texto_digito are None or Some(str).
RECURSIVE separar_desde(_, _, _, _)
separar_desde(contenidos, k, texto_letra, texto_digito) ==
    IF k > Len(contenidos) THEN <<texto_letra, texto_digito>>
    ELSE LET c == strip(contenidos[k])
             solo_letras == SelectSeq(c, LAMBDA x : x \in LetrasSeparar)
         IN  IF c = <<>> THEN separar_desde(contenidos, k + 1, texto_letra, texto_digito)
             ELSE IF es_digito_puro(c) /\ texto_digito = None
             THEN separar_desde(contenidos, k + 1, texto_letra, Some(c))
             ELSE IF solo_letras # <<>> /\ Len(solo_letras) >= 3
                     /\ (texto_letra = None \/ Len(c) > Len(texto_letra[1]))
             THEN separar_desde(contenidos, k + 1, Some(c), texto_digito)
             ELSE separar_desde(contenidos, k + 1, texto_letra, texto_digito)

_separar_letra_y_digito(contenidos) == separar_desde(contenidos, 1, None, None)

\* dict helpers: a dict is a function; d[k] = v overrides.
Poner(d, k, v) == [x \in DOMAIN d \cup {k} |-> IF x = k THEN v ELSE d[x]]
Obtener(d, k, defecto) == IF k \in DOMAIN d THEN d[k] ELSE defecto

\* acepta_local with a strict comparison against the threshold.
acepta_local_estricto(res) ==
    /\ res.metodo # "necesita_ia"
    /\ res.metodo # "sin_resultado"
    /\ res.confianza > _CONFIANZA_MINIMA
    /\ res.valor # None

\* acepta_local with the 0.60 of validar_campo for a threshold.
acepta_local_desde_060(res) ==
    /\ res.metodo # "necesita_ia"
    /\ res.metodo # "sin_resultado"
    /\ res.confianza >= Dec(60)
    /\ res.valor # None

\* The test of paso 1.5 that accepts the local result res of validar_campo.
acepta_local(res) ==
    /\ res.metodo # "necesita_ia"
    /\ res.metodo # "sin_resultado"
    /\ res.confianza >= _CONFIANZA_MINIMA
    /\ res.valor # None

resultado_local(id_campo, num_tabla, res) ==
    [id |-> id_campo, tabla |-> num_tabla, valor |-> res.valor,
     confianza |-> IF res.confianza >= Dec(95) THEN "alta" ELSE "media",
     razonamiento |-> "[LOCAL]"]

\* res = convertidor.validar_campo(texto_letra, texto_digito or ""), where sep
\* is what _separar_letra_y_digito returned and texto_letra is present.
validar_separado(sep) ==
    validar_campo(sep[1][1], IF sep[2] = None THEN <<>> ELSE sep[2][1])

\* if not resuelto: pares_para_ia_por_tabla[num_tabla].append(par)
\* acc = [locales, para_ia, resuelto]; resuelto keeps the flag of every par.
dejar_para_ia(acc, par) ==
    [acc EXCEPT !.para_ia = Append(@, par), !.resuelto = Append(@, FALSE)]

\* The test on res and its two outcomes.
aceptar_o_dejar(acc, num_tabla, par, res) ==
    IF acepta_local(res)
    THEN [acc EXCEPT !.locales = Poner(@, par.id, resultado_local(par.id, num_tabla, res)),
                     !.resuelto = Append(@, TRUE)]
    ELSE dejar_para_ia(acc, par)

\* The body that, without a texto_letra, takes the digits at full confidence.
prevalidar_par_con_digito(acc, num_tabla, par, sep) ==
    IF sep[1] = None
    THEN (IF sep[2] = None THEN dejar_para_ia(acc, par)
          ELSE aceptar_o_dejar(acc, num_tabla, par,
                               Campo(_extraer_digito(sep[2][1]), Escala, "solo_digito")))
    ELSE aceptar_o_dejar(acc, num_tabla, par, validar_separado(sep))

\* The body of the loop of paso 1.5 for one par: validar_campo is called only
\* with a texto_letra.
prevalidar_par(acc, num_tabla, par, sep) ==
    IF sep[1] = None THEN dejar_para_ia(acc, par)
    ELSE aceptar_o_dejar(acc, num_tabla, par, validar_separado(sep))

\* The inner loop of paso 1.5 over the pares of one table, from pares[k] on.
RECURSIVE prevalidar_tabla(_, _, _, _)
prevalidar_tabla(num_tabla, pares, k, acc) ==
    IF k > Len(pares) THEN acc
    ELSE prevalidar_tabla(num_tabla, pares, k + 1,
             prevalidar_par(acc, num_tabla, pares[k],
                            _separar_letra_y_digito(pares[k].contenidos)))

PrevalidacionDe(num_tabla, pares) ==
    prevalidar_tabla(num_tabla, pares, 1, [locales |-> <<>>, para_ia |-> <<>>, resuelto |-> <<>>])

\* {str(r.get("id", "")).strip(): r for r in ia_lista}: the keys in the order
\* of their first occurrence, each with the value of its last occurrence.
RECURSIVE ia_por_id_desde(_, _, _)
ia_por_id_desde(ia_lista, k, acc) ==
    IF k > Len(ia_lista) THEN acc
    ELSE LET clave == strip(ia_lista[k].id)
             r == ia_lista[k]
         IN  ia_por_id_desde(ia_lista, k + 1,
                 IF \E i \in 1..Len(acc) : acc[i].clave = clave
                 THEN [i \in 1..Len(acc) |->
                          IF acc[i].clave = clave THEN [clave |-> clave, r |-> r] ELSE acc[i]]
                 ELSE Append(acc, [clave |-> clave, r |-> r]))

ia_por_id_de(ia_lista) == ia_por_id_desde(ia_lista, 1, <<>>)

EnDict(ia_por_id, clave) == \E i \in 1..Len(ia_por_id) : ia_por_id[i].clave = clave
DeDict(ia_por_id, clave) == ia_por_id[CHOOSE i \in 1..Len(ia_por_id) : ia_por_id[i].clave = clave].r

Linea(id_campo, valor) == [id |-> id_campo, valor |-> valor]

\* The first loop of paso 3 over ids_orden, from ids_orden[k] on: local first,
\* else the IA result; kept only with a valor.  acc = [lineas, resultados].
RECURSIVE combinar_orden(_, _, _, _, _)
combinar_orden(ids_orden, k, locales, ia_por_id, acc) ==
    IF k > Len(ids_orden) THEN acc
    ELSE LET id_campo == ids_orden[k]
             hay == id_campo \in DOMAIN locales \/ EnDict(ia_por_id, id_campo)
             r == IF id_campo \in DOMAIN locales THEN locales[id_campo]
                  ELSE DeDict(ia_por_id, id_campo)
         IN  combinar_orden(ids_orden, k + 1, locales, ia_por_id,
                 IF hay /\ r.valor # None
                 THEN [lineas |-> Append(acc.lineas, Linea(id_campo, r.valor)),
                       resultados |-> Append(acc.resultados, r)]
                 ELSE acc)

\* The second loop of paso 3: IA results whose id is not in ids_orden.
RECURSIVE combinar_extra(_, _, _, _)
combinar_extra(ids_orden, ia_por_id, k, acc) ==
    IF k > Len(ia_por_id) THEN acc
    ELSE LET id_ia == ia_por_id[k].clave
             r == ia_por_id[k].r
         IN  combinar_extra(ids_orden, ia_por_id, k + 1,
                 IF (\A i \in 1..Len(ids_orden) : ids_orden[i] # id_ia) /\ r.valor # None
                 THEN [lineas |-> Append(acc.lineas, Linea(id_ia, r.valor)),
                       resultados |-> Append(acc.resultados, r)]
                 ELSE acc)

\* One iteration of the loop of paso 3: [lineas, resultados, origen] of a table.
combinar_tabla(pares_originales, locales, ia_lista) ==
    LET ia_por_id == ia_por_id_de(ia_lista)
        ids_orden == [i \in 1..Len(pares_originales) |-> pares_originales[i].id]
        enorden == combinar_orden(ids_orden, 1, locales, ia_por_id,
                                  [lineas |-> <<>>, resultados |-> <<>>])
        todo == combinar_extra(ids_orden, ia_por_id, 1, enorden)
    IN  [lineas |-> todo.lineas, resultados |-> todo.resultados,
         origen |-> IF locales # <<>> /\ ia_lista # <<>> THEN "(Validado local + IA)"
                    ELSE IF ia_lista # <<>> THEN "(Validado por IA)"
                    ELSE "(Validado localmente)"]

(***************************************************************************)
(* State                                                                   *)
(***************************************************************************)
VARIABLES
    entrada,                        \* the call under way on the converter
    salida,                         \* what the calls have returned so far
    pc,                             \* position in _guardar_con_validacion
    documento,                      \* num_tablas and pares_por_tabla after paso 1
    resueltos,                      \* per table, the flag resuelto of every par
    resultados_locales_por_tabla,
    pares_para_ia_por_tabla,
    llamadas_ia,                    \* the argument of every validar_documento call
    respuesta_ia,
    resultados_ia_por_tabla,
    todos_los_resultados,
    contenido_total,
    resultado                       \* resultado["exito"]

vars == <<entrada, salida, pc, documento, resueltos, resultados_locales_por_tabla,
          pares_para_ia_por_tabla, llamadas_ia, respuesta_ia, resultados_ia_por_tabla,
          todos_los_resultados, contenido_total, resultado>>

varsExportador == <<pc, documento, resueltos, resultados_locales_por_tabla,
                    pares_para_ia_por_tabla, llamadas_ia, respuesta_ia,
                    resultados_ia_por_tabla, todos_los_resultados, contenido_total,
                    resultado>>

(***************************************************************************)
(* Bounds and inputs                                                       *)
(***************************************************************************)
MaxPalabras == 4
MaxLlamadas == 2
MaxTablas == 2
MaxPares == 2
MaxIA == 2
MaxErrores == 5
MaxFichas == 3
MaxCaracteres == 4
MaxContenidos == 3

SeqsHasta(S, n) == UNION {[1..k -> S] : k \in 0..n}

RECURSIVE unir(_)
unir(palabras) ==
    IF palabras = <<>> THEN <<>>
    ELSE IF Len(palabras) = 1 THEN palabras[1]
    ELSE palabras[1] \o <<" ">> \o unir(Tail(palabras))

\* str.upper() on one character.
upper_c(c) ==
    IF \E i \in 1..Len(Minusculas) : Minusculas[i] = c
    THEN Mayusculas[CHOOSE i \in 1..Len(Minusculas) : Minusculas[i] = c]
    ELSE IF \E i \in 1..Len(AcentuadasMin) : AcentuadasMin[i] = c
    THEN AcentuadasMay[CHOOSE i \in 1..Len(AcentuadasMin) : AcentuadasMin[i] = c]
    ELSE c

acentuar_c(c) ==
    CASE c = "a" -> "á" [] c = "e" -> "é" [] c = "i" -> "í" [] c = "o" -> "ó"
      [] c = "u" -> "ú" [] c = "n" -> "ñ" [] OTHER -> c

\* Case and accent variants of a Lexicon word.
Variantes(w) ==
    { w,
      [i \in 1..Len(w) |-> upper_c(w[i])],
      [i \in 1..Len(w) |-> IF i = 1 THEN upper_c(w[i]) ELSE w[i]],
      [i \in 1..Len(w) |-> acentuar_c(w[i])],
      [i \in 1..Len(w) |-> upper_c(acentuar_c(w[i]))],
      [i \in 1..Len(w) |-> IF i = Len(w) THEN upper_c(w[i]) ELSE IF w[i] = "u" THEN "ü" ELSE w[i]] }

Vocabulario ==
    { <<"c","u","a","t","r","o","c","i","e","n","t","o","s">>,
      <<"v","e","i","n","t","i","u","n","o">>,
      <<"d","o","s","c","i","e","n","t","o","s">>,
      <<"t","r","e","i","n","t","a">>,
      <<"s","e","i","s">>,
      <<"y">>,
      <<"x","y","z">> }

\* Inputs of convertir: de is the index of the Lexicon word the text is a
\* variant of, 0 for a text composed from Vocabulario.
EntradasConvertir ==
    {[fn |-> "convertir", texto |-> t, de |-> k] :
        <<k, t>> \in UNION {{<<k, t>> : t \in Variantes(PALABRAS[k].palabra)} : k \in 1..Len(PALABRAS)}}
    \cup {[fn |-> "convertir", texto |-> unir(ps), de |-> 0] : ps \in SeqsHasta(Vocabulario, MaxPalabras)}

TextosCampo ==
    { <<"Q","u","i","n","i","e","n","t","o","s"," ","c","u","a","r","e","n","t","a"," ","y"," ","c","i","n","c","o">>,
      <<"T","r","e","i","n","t","a"," ","y"," ","C","i","n","c","o">>,
      <<"C","i","n","c","u","e","n","t","a">>,
      <<"O","c","h","o","c","i","e","n","t","o","s">>,
      <<"V","e","i","n","t","i","t","r","é","s">>,
      <<"c","e","r","o">>,
      <<"n","o","v","e","c","i","e","n","t","o","s"," ","q","u","i","n","i","e","n","t","o","s">>,
      <<"C","a","l","o","r","c","e">>,
      <<"v","e","i","n","i","s","i","n","c","o">>,
      <<"V","e","n","t","i","c","i","n","c","o">>,
      <<"O","c","h","o","d","e","u","t","o","s">>,
      <<"d","i","e","c","i","n","n","e","v","e">>,
      <<"s","i","n","c","u","e","n","t","a">>,
      <<"c","u","a","r","a","n","t","a">>,
      <<"o","n","c","e","e">>,
      <<"o","c","h","o","o">>,
      <<"b","e","n","t","e">>,
      <<"s","i","n","c">>,
      <<"n","x","x","x","e">>,
      <<"s","i","e","s">>,
      <<"d","o","s","i","e","n","t","o","s"," ","t","r","e","i","n","t","a"," ","y"," ","s","e","i","z">>,
      <<"t","r","e","i","n","t","a"," ","y"," ","s","i","n","c","o">>,
      <<"S","e","l","c","a","r","t","a">>,
      <<"t","r","e","i","v","i","l","a">>,
      <<"D","e","s","p","u","l","a">>,
      <<"Q","u","i","n","i","t","s">>,
      <<"t","r","e","i","v","i","l","a"," ","y"," ","c","u","a","t","r","o">>,
      <<"c","u","a","t","r","o","c","i","e","n","t","o","s"," ","x","y","z">>,
      <<"(","C","o","n"," ","l","e","t","r","a",")">>,
      <<>> }

TextosDigito ==
    { <<"5","4","5">>,
      <<"5","4","4">>,
      <<"1","4">>,
      <<"0","3","5">>,
      <<"2"," ","5",".">>,
      <<"a","b","c">>,
      <<>> }

EntradasValidarCampo == {[fn |-> "validar_campo", texto_letra |-> l] : l \in TextosCampo}

\* OCR damage of a Lexicon word w in k of its characters: inside the word
\* (its length, first and last letter survive), at its end, or cut off.
DanoInterior(w, k) == [i \in 1..Len(w) |-> IF 1 < i /\ i <= k + 1 /\ i < Len(w) THEN "x" ELSE w[i]]
DanoFinal(w, k) == [i \in 1..Len(w) |-> IF i > Len(w) - k THEN "x" ELSE w[i]]
DanoCorte(w, k) == SubSeq(w, 1, Max2(1, Len(w) - k))

\* The corrupted words of pruebas_fuzzy, as convertir_fuzzy normalizes them.
FichasDePrueba ==
    { <<"c","a","l","o","r","c","e">>,
      <<"v","e","i","n","i","s","i","n","c","o">>,
      <<"v","e","n","t","i","c","i","n","c","o">>,
      <<"s","e","l","c","a","r","t","a">>,
      <<"t","r","e","i","v","i","l","a">>,
      <<"o","c","h","o","d","e","u","t","o","s">>,
      <<"d","e","s","p","u","l","a">>,
      <<"q","u","i","n","i","t","s">>,
      <<"d","i","e","c","i","n","n","e","v","e">>,
      <<"s","i","n","c","u","e","n","t","a">>,
      <<"c","u","a","r","a","n","t","a">> }

\* Inputs of _fuzzy_palabra: the words convertir_fuzzy hands it are non-empty
\* tokens of a normalized text.
FichasDanadas ==
    UNION {{DanoInterior(PALABRAS[n].palabra, k), DanoFinal(PALABRAS[n].palabra, k),
            DanoCorte(PALABRAS[n].palabra, k)} : n \in 1..Len(PALABRAS), k \in 0..MaxErrores}

EntradasFuzzyPalabra ==
    {[fn |-> "_fuzzy_palabra", palabra |-> t] : t \in FichasDanadas \cup FichasDePrueba \cup {<<"y">>}}

\* Tokens of the texts of convertir_fuzzy: exact, approximate with several
\* confidences, resolved by fingerprint, unreadable, and the connective.
VocabularioFuzzy ==
    { <<"t","r","e","i","n","t","a">>,
      <<"d","o","s","i","e","n","t","o","s">>,
      <<"s","e","i","z">>,
      <<"s","i","e","s">>,
      <<"n","x","x","x","e">>,
      <<"t","r","e","i","v","i","l","a">>,
      <<"y">> }

EntradasFuzzy ==
    {[fn |-> "convertir_fuzzy", texto |-> t] :
        t \in TextosCampo \cup FichasDePrueba \cup FichasDanadas
              \cup {unir(ps) : ps \in SeqsHasta(VocabularioFuzzy, MaxFichas)}}

SinEntrada == [fn |-> "ninguna"]

\* Field ids of the extraction step and the cell contents of a field.
IdsCampo == {<<"9","4">>, <<"9","6">>}

ContenidosPosibles ==
    { << <<"C","i","e","n">>, <<"1","0","0">> >>,          \* exact, digits agree
      << <<"o","c","h","o","o">>, <<"8">> >>,              \* fuzzy, confidence 0.75
      << <<"b","e","n","t","e">>, <<"2","0">> >>,          \* fuzzy, confidence 2/3
      << <<"S","e","l","c","a","r","t","a">>, <<"6","0">> >>,  \* word unreadable
      << <<"5","4","5">> >> }                              \* no word at all

ParesPosibles == {[id |-> i, contenidos |-> c] : i \in IdsCampo, c \in ContenidosPosibles}

EnOrdenDeTabla(s) == \A i \in 1..(Len(s) - 1) : s[i][1] <= s[i + 1][1]

\* The entries of s for table t, in order.
DeTabla(s, t) ==
    LET sel == SelectSeq(s, LAMBDA e : e[1] = t)
    IN  [i \in 1..Len(sel) |-> sel[i][2]]

PorTabla(s, n) == [t \in {u \in 1..n : DeTabla(s, u) # <<>>} |-> DeTabla(s, t)]

\* What paso 1 hands on: num_tablas = min(len(tables), 3) tables, and
\* pares_por_tabla, which holds only the tables that have pares.
Documentos ==
    {[num_tablas |-> MaxTablas, pares_por_tabla |-> PorTabla(s, MaxTablas)] :
        s \in {x \in SeqsHasta((1..MaxTablas) \X ParesPosibles, MaxPares) : EnOrdenDeTabla(x)}}

\* What validar_documento may answer for one field: any id (of the document,
\* padded, or foreign) with a value or null.
IdsIA == {<<"9","4">>, <<"9","6"," ">>, <<"9","9">>}
ValoresIA == {None, Some(7)}

ResultadoIA(t, i, v) ==
    [id |-> i, tabla |-> t, valor |-> v, confianza |-> "alta", razonamiento |-> "ia"]

ListasIA ==
    {PorTabla(s, MaxTablas) :
        s \in {x \in SeqsHasta({<<t, ResultadoIA(t, i, v)>> :
                                    t \in 1..MaxTablas, i \in IdsIA, v \in ValoresIA},
                               MaxIA) : EnOrdenDeTabla(x)}}

\* The outcomes of validador.validar_documento(pares_para_ia_por_tabla): an
\* exception, or a dict with "exito" and, possibly, "resultados_por_tabla".
RespuestasIA ==
    {[excepcion |-> TRUE, exito |-> FALSE, tiene_resultados |-> FALSE, resultados_por_tabla |-> <<>>]}
    \cup {[excepcion |-> FALSE, exito |-> FALSE, tiene_resultados |-> FALSE, resultados_por_tabla |-> <<>>]}
    \cup {[excepcion |-> FALSE, exito |-> e, tiene_resultados |-> TRUE, resultados_por_tabla |-> l] :
            e \in BOOLEAN, l \in ListasIA}

SinRespuesta ==
    [excepcion |-> FALSE, exito |-> FALSE, tiene_resultados |-> FALSE, resultados_por_tabla |-> <<>>]

(***************************************************************************)
(* Calls on the converter                                                  *)
(***************************************************************************)
ExportadorInactivo ==
    /\ pc = "inactivo"
    /\ documento = [num_tablas |-> 0, pares_por_tabla |-> <<>>]
    /\ resueltos = <<>>
    /\ resultados_locales_por_tabla = <<>>
    /\ pares_para_ia_por_tabla = <<>>
    /\ llamadas_ia = <<>>
    /\ respuesta_ia = SinRespuesta
    /\ resultados_ia_por_tabla = <<>>
    /\ todos_los_resultados = <<>>
    /\ contenido_total = <<>>
    /\ resultado = [exito |-> FALSE]

InitConvertir == entrada \in EntradasConvertir /\ salida = <<>> /\ ExportadorInactivo

LlamarConvertir ==
    /\ entrada.fn = "convertir"
    /\ salida = <<>>
    /\ salida' = <<convertir(entrada.texto)>>
    /\ UNCHANGED <<entrada, varsExportador>>

SpecConvertir == InitConvertir /\ [][LlamarConvertir]_vars

InitValidarCampo == entrada \in EntradasValidarCampo /\ salida = <<>> /\ ExportadorInactivo

LlamarValidarCampo(texto_digito) ==
    /\ entrada.fn = "validar_campo"
    /\ Len(salida) < MaxLlamadas
    /\ salida' = Append(salida, [texto_digito |-> texto_digito,
                                 res |-> validar_campo(entrada.texto_letra, texto_digito)])
    /\ UNCHANGED <<entrada, varsExportador>>

NextValidarCampo == \E d \in TextosDigito : LlamarValidarCampo(d)

SpecValidarCampo == InitValidarCampo /\ [][NextValidarCampo]_vars

InitFuzzy ==
    /\ entrada \in EntradasFuzzy \cup EntradasFuzzyPalabra
    /\ salida = <<>>
    /\ ExportadorInactivo

LlamarConvertirFuzzy ==
    /\ entrada.fn = "convertir_fuzzy"
    /\ salida = <<>>
    /\ salida' = <<convertir_fuzzy(entrada.texto)>>
    /\ UNCHANGED <<entrada, varsExportador>>

LlamarFuzzyPalabra ==
    /\ entrada.fn = "_fuzzy_palabra"
    /\ salida = <<>>
    /\ salida' = <<_fuzzy_palabra(entrada.palabra)>>
    /\ UNCHANGED <<entrada, varsExportador>>

NextFuzzy == LlamarConvertirFuzzy \/ LlamarFuzzyPalabra

SpecFuzzy == InitFuzzy /\ [][NextFuzzy]_vars

(***************************************************************************)
(* ToonExporter._guardar_con_validacion                                    *)
(***************************************************************************)
Init ==
    /\ entrada = SinEntrada
    /\ salida = <<>>
    /\ pc = "paso1"
    /\ documento \in Documentos
    /\ resueltos = <<>>
    /\ resultados_locales_por_tabla = <<>>
    /\ pares_para_ia_por_tabla = <<>>
    /\ llamadas_ia = <<>>
    /\ respuesta_ia = SinRespuesta
    /\ resultados_ia_por_tabla = <<>>
    /\ todos_los_resultados = <<>>
    /\ contenido_total = <<>>
    /\ resultado = [exito |-> FALSE]

\* End of paso 1: without pares the function returns.
Paso1 ==
    /\ pc = "paso1"
    /\ pc' = IF DOMAIN documento.pares_por_tabla = {} THEN "retorno" ELSE "paso1_5"
    /\ UNCHANGED <<entrada, salida, documento, resueltos, resultados_locales_por_tabla,
                   pares_para_ia_por_tabla, llamadas_ia, respuesta_ia,
                   resultados_ia_por_tabla, todos_los_resultados, contenido_total, resultado>>

\* Paso 1.5: local pre-validation of every par of every table.
\* Paso 1.5 with the converter: per table, the local results, the pares left
\* for the IA (a table left without pares is deleted) and the flags.
prevalidar_con_memoria(pares_por_tabla) ==
    [t \in DOMAIN pares_por_tabla |->
        IF salida = <<>> THEN PrevalidacionDe(t, pares_por_tabla[t])
        ELSE [locales |-> <<>>, para_ia |-> pares_por_tabla[t],
              resuelto |-> [i \in 1..Len(pares_por_tabla[t]) |-> FALSE]]]

prevalidar(pares_por_tabla) ==
    [t \in DOMAIN pares_por_tabla |-> PrevalidacionDe(t, pares_por_tabla[t])]

sin_tablas_vacias(pre) ==
    [t \in {u \in DOMAIN pre : pre[u].para_ia # <<>>} |-> pre[t].para_ia]

Paso1_5Con(pre) ==
    /\ resultados_locales_por_tabla' = [t \in DOMAIN pre |-> pre[t].locales]
    /\ pares_para_ia_por_tabla' = sin_tablas_vacias(pre)
    /\ resueltos' = [t \in DOMAIN pre |-> pre[t].resuelto]

\* Paso 1.5 without the converter: every par goes to the IA.
Paso1_5Sin(pares_por_tabla) ==
    /\ resultados_locales_por_tabla' = [t \in DOMAIN pares_por_tabla |-> <<>>]
    /\ pares_para_ia_por_tabla' = pares_por_tabla
    /\ resueltos' = [t \in DOMAIN pares_por_tabla |->
                        [i \in 1..Len(pares_por_tabla[t]) |-> FALSE]]

Paso1_5 ==
    /\ pc = "paso1_5"
    /\ IF _CONVERTIDOR_DISPONIBLE
       THEN Paso1_5Con(prevalidar(documento.pares_por_tabla))
       ELSE Paso1_5Sin(documento.pares_por_tabla)
    /\ pc' = "paso2"
    /\ UNCHANGED <<entrada, salida, documento, llamadas_ia, respuesta_ia,
                   resultados_ia_por_tabla, todos_los_resultados, contenido_total, resultado>>

\* A paso 2 that calls the IA whether or not fields are left.
debe_llamar_siempre(para_ia) == TRUE

\* if pares_para_ia_por_tabla:
debe_llamar_ia(para_ia) == DOMAIN para_ia # {}

\* any(resultados_locales_por_tabla.values())
hay_locales(locales_por_tabla) == \E t \in DOMAIN locales_por_tabla : locales_por_tabla[t] # <<>>

SinResultadosIA == [t \in DOMAIN documento.pares_por_tabla |-> <<>>]

\* Paso 2 with fields left: the one call of validar_documento and its outcome.
Paso2Llamar(respuesta) ==
    /\ pc = "paso2"
    /\ debe_llamar_ia(pares_para_ia_por_tabla)
    /\ llamadas_ia' = Append(llamadas_ia, pares_para_ia_por_tabla)
    /\ respuesta_ia' = respuesta
    /\ IF respuesta.excepcion
       THEN pc' = "excepcion" /\ resultados_ia_por_tabla' = SinResultadosIA
       ELSE IF ~respuesta.exito /\ ~hay_locales(resultados_locales_por_tabla)
       THEN pc' = "retorno" /\ resultados_ia_por_tabla' = SinResultadosIA
       ELSE /\ pc' = "paso3"
            /\ resultados_ia_por_tabla' =
                   IF respuesta.tiene_resultados THEN respuesta.resultados_por_tabla
                   ELSE SinResultadosIA
    /\ UNCHANGED <<entrada, salida, documento, resueltos, resultados_locales_por_tabla,
                   pares_para_ia_por_tabla, todos_los_resultados, contenido_total, resultado>>

\* Paso 2 with every field resolved locally: no call.
Paso2SinLlamada ==
    /\ pc = "paso2"
    /\ ~debe_llamar_ia(pares_para_ia_por_tabla)
    /\ resultados_ia_por_tabla' = SinResultadosIA
    /\ pc' = "paso3"
    /\ UNCHANGED <<entrada, salida, documento, resueltos, resultados_locales_por_tabla,
                   pares_para_ia_por_tabla, llamadas_ia, respuesta_ia,
                   todos_los_resultados, contenido_total, resultado>>

CombinacionDe(num_tabla) ==
    combinar_tabla(Obtener(documento.pares_por_tabla, num_tabla, <<>>),
                   Obtener(resultados_locales_por_tabla, num_tabla, <<>>),
                   Obtener(resultados_ia_por_tabla, num_tabla, <<>>))

\* Paso 3: merge table by table, then write the file (which may fail).
Paso3(escritura_ok) ==
    /\ pc = "paso3"
    /\ LET tablas == [i \in 1..documento.num_tablas |-> CombinacionDe(i)]
           con_lineas == SelectSeq([i \in 1..documento.num_tablas |->
                                       [tabla |-> i, origen |-> tablas[i].origen,
                                        lineas |-> tablas[i].lineas]],
                                   LAMBDA b : b.lineas # <<>>)
       IN  /\ todos_los_resultados' = [i \in 1..documento.num_tablas |-> tablas[i].resultados]
           /\ contenido_total' = con_lineas
           /\ resultado' = [exito |-> con_lineas # <<>> /\ escritura_ok]
    /\ pc' = "retorno"
    /\ UNCHANGED <<entrada, salida, documento, resueltos, resultados_locales_por_tabla,
                   pares_para_ia_por_tabla, llamadas_ia, respuesta_ia, resultados_ia_por_tabla>>

Next ==
    \/ Paso1
    \/ Paso1_5
    \/ \E r \in RespuestasIA : Paso2Llamar(r)
    \/ Paso2SinLlamada
    \/ \E ok \in BOOLEAN : Paso3(ok)

Spec == Init /\ [][Next]_vars

(***************************************************************************)
(* Calls on normalizar                                                     *)
(***************************************************************************)
\* Characters of every kind normalizar tells apart: a lower-case and an
\* upper-case letter, accented letters of both cases, a combining mark on
\* its own, two kinds of whitespace, a digit and a punctuation sign.
CaracteresNormalizar == {"a", "Z", "é", "Ñ", Acute, " ", "\t", "5", "-"}

EntradasNormalizar ==
    {[fn |-> "normalizar", texto |-> t] : t \in SeqsHasta(CaracteresNormalizar, MaxCaracteres)}

InitNormalizar == entrada \in EntradasNormalizar /\ salida = <<>> /\ ExportadorInactivo

\* normalizar(texto).
LlamarNormalizar ==
    /\ salida = <<>>
    /\ salida' = <<normalizar(entrada.texto)>>
    /\ UNCHANGED <<entrada, pc, documento, resueltos, resultados_locales_por_tabla,
                   pares_para_ia_por_tabla, llamadas_ia, respuesta_ia,
                   resultados_ia_por_tabla, todos_los_resultados, contenido_total,
                   resultado>>

\* normalizar on what normalizar returned.
LlamarNormalizarOtraVez ==
    /\ Len(salida) = 1
    /\ salida' = Append(salida, normalizar(salida[1]))
    /\ UNCHANGED <<entrada, pc, documento, resueltos, resultados_locales_por_tabla,
                   pares_para_ia_por_tabla, llamadas_ia, respuesta_ia,
                   resultados_ia_por_tabla, todos_los_resultados, contenido_total,
                   resultado>>

NextNormalizar == LlamarNormalizar \/ LlamarNormalizarOtraVez

SpecNormalizar == InitNormalizar /\ [][NextNormalizar]_vars

(***************************************************************************)
(* _guardar_con_validacion on fields of every kind of letter text          *)
(***************************************************************************)
\* Letter texts: resolved by fingerprint alone ("nxxxe", 9 at 0.65), with an
\* exact word (39 at 0.65), with a word at 0.50 (15 at 0.50, below the 0.60
\* of validar_campo), approximate above 0.75, unreadable, and exact.
LetrasDeCampo ==
    { <<"n","x","x","x","e">>,
      <<"t","r","e","i","n","t","a"," ","y"," ","n","x","x","x","e">>,
      <<"N","x","x","x","e"," ","s","e","i","s","c","i">>,
      <<"o","c","h","o","o">>,
      <<"S","e","l","c","a","r","t","a">>,
      <<"C","i","e","n">> }

\* Digit cells: one that agrees with a letter text above, and one that agrees
\* with none.
DigitosDeCampo == { <<"9">>, <<"3","9">>, <<"7">> }

ContenidosDeCampo ==
    {<<l>> : l \in LetrasDeCampo}
    \cup {<<l, d>> : l \in LetrasDeCampo, d \in DigitosDeCampo}
    \cup {<<d>> : d \in DigitosDeCampo}

ParesDeCampo == {[id |-> i, contenidos |-> c] : i \in IdsCampo, c \in ContenidosDeCampo}

\* Documents with up to MaxPares such pares, all in the first table.
DocumentosDeCampos ==
    {[num_tablas |-> MaxTablas, pares_por_tabla |-> PorTabla(s, MaxTablas)] :
        s \in SeqsHasta({1} \X ParesDeCampo, MaxPares)}

InitCampos ==
    /\ entrada = SinEntrada
    /\ salida = <<>>
    /\ pc = "paso1"
    /\ documento \in DocumentosDeCampos
    /\ resueltos = <<>>
    /\ resultados_locales_por_tabla = <<>>
    /\ pares_para_ia_por_tabla = <<>>
    /\ llamadas_ia = <<>>
    /\ respuesta_ia = SinRespuesta
    /\ resultados_ia_por_tabla = <<>>
    /\ todos_los_resultados = <<>>
    /\ contenido_total = <<>>
    /\ resultado = [exito |-> FALSE]

\* The outcomes of validar_documento that bring no result: an exception, a
\* failure, and an answer with no field in it.
RespuestasSinResultados == {r \in RespuestasIA : DOMAIN r.resultados_por_tabla = {}}

NextCampos ==
    \/ Paso1
    \/ Paso1_5
    \/ \E r \in RespuestasSinResultados : Paso2Llamar(r)
    \/ Paso2SinLlamada
    \/ \E ok \in BOOLEAN : Paso3(ok)

SpecCampos == InitCampos /\ [][NextCampos]_vars

(***************************************************************************)
(* Calls on levenshtein                                                    *)
(***************************************************************************)
\* Strings over three letters: equal, disjoint, shifted, nested, empty.
CaracteresLevenshtein == {"a", "b", "c"}

EntradasLevenshtein ==
    {[fn |-> "levenshtein", s1 |-> x, s2 |-> y] :
        x \in SeqsHasta(CaracteresLevenshtein, MaxCaracteres),
        y \in SeqsHasta(CaracteresLevenshtein, MaxCaracteres)}

InitLevenshtein == entrada \in EntradasLevenshtein /\ salida = <<>> /\ ExportadorInactivo

\* levenshtein(s1, s2).
LlamarLevenshtein ==
    /\ salida = <<>>
    /\ salida' = <<levenshtein(entrada.s1, entrada.s2)>>
    /\ UNCHANGED <<entrada, pc, documento, resueltos, resultados_locales_por_tabla,
                   pares_para_ia_por_tabla, llamadas_ia, respuesta_ia,
                   resultados_ia_por_tabla, todos_los_resultados, contenido_total,
                   resultado>>

\* levenshtein(s2, s1), after levenshtein(s1, s2).
LlamarLevenshteinAlReves ==
    /\ Len(salida) = 1
    /\ salida' = Append(salida, levenshtein(entrada.s2, entrada.s1))
    /\ UNCHANGED <<entrada, pc, documento, resueltos, resultados_locales_por_tabla,
                   pares_para_ia_por_tabla, llamadas_ia, respuesta_ia,
                   resultados_ia_por_tabla, todos_los_resultados, contenido_total,
                   resultado>>

NextLevenshtein == LlamarLevenshtein \/ LlamarLevenshteinAlReves

SpecLevenshtein == InitLevenshtein /\ [][NextLevenshtein]_vars

(***************************************************************************)
(* Calls on _separar_letra_y_digito                                        *)
(***************************************************************************)
\* Cell contents of every kind the function tells apart: digits alone, digits
\* with few or many letters around the 0.7 ratio, words of equal and of
\* different length, words with accents, with other signs, with a letter
\* outside the regex class, with whitespace around, and empty or blank cells.
ContenidosSeparar ==
    { <<"5","4","5">>,
      <<"1","2","3","4","5">>,
      <<"1","2","a","4">>,
      <<"5","a">>,
      <<"1","2","3","4","5","6","7","a","b","c">>,
      <<"1","2","a","b","c">>,
      <<"a","b">>,
      <<"a","b","c">>,
      <<"C","i","e","n">>,
      <<"o","c","h","o">>,
      <<" ","d","o","s"," "," ">>,
      <<"ñ","á","É">>,
      <<"a","-","b","-","c">>,
      <<"ç","a","b">>,
      <<>>,
      <<" "," ">> }

EntradasSeparar ==
    {[fn |-> "_separar_letra_y_digito", contenidos |-> cs] :
        cs \in SeqsHasta(ContenidosSeparar, MaxContenidos)}

InitSeparar == entrada \in EntradasSeparar /\ salida = <<>> /\ ExportadorInactivo

\* _separar_letra_y_digito(contenidos): salida holds (texto_letra, texto_digito).
LlamarSeparar ==
    /\ salida = <<>>
    /\ salida' = <<_separar_letra_y_digito(entrada.contenidos)>>
    /\ UNCHANGED <<entrada, pc, documento, resueltos, resultados_locales_por_tabla,
                   pares_para_ia_por_tabla, llamadas_ia, respuesta_ia,
                   resultados_ia_por_tabla, todos_los_resultados, contenido_total,
                   resultado>>

SpecSeparar == InitSeparar /\ [][LlamarSeparar]_vars

(***************************************************************************)
(* Two runs of _guardar_con_validacion on the same document                *)
(***************************************************************************)
\* The documents taken for the two runs: those whose pares are all in the
\* first table.
DocumentosDosCorridas ==
    {d \in Documentos : \A t \in DOMAIN d.pares_por_tabla : t = 1}

InitDosCorridas ==
    /\ entrada = SinEntrada
    /\ salida = <<>>
    /\ pc = "paso1"
    /\ documento \in DocumentosDosCorridas
    /\ resueltos = <<>>
    /\ resultados_locales_por_tabla = <<>>
    /\ pares_para_ia_por_tabla = <<>>
    /\ llamadas_ia = <<>>
    /\ respuesta_ia = SinRespuesta
    /\ resultados_ia_por_tabla = <<>>
    /\ todos_los_resultados = <<>>
    /\ contenido_total = <<>>
    /\ resultado = [exito |-> FALSE]

\* What a run leaves behind: where it ended, its batch for the IA, the call
\* and its outcome, and the merged tables.
CorridaDe ==
    [pc |-> pc,
     pares_para_ia_por_tabla |-> pares_para_ia_por_tabla,
     llamadas_ia |-> llamadas_ia,
     respuesta_ia |-> respuesta_ia,
     todos_los_resultados |-> todos_los_resultados,
     contenido_total |-> contenido_total]

\* The function is called again on the same resultado_azure: its locals start
\* afresh.
Repetir ==
    /\ pc \in {"retorno", "excepcion"}
    /\ salida = <<>>
    /\ salida' = <<CorridaDe>>
    /\ pc' = "paso1"
    /\ resueltos' = <<>>
    /\ resultados_locales_por_tabla' = <<>>
    /\ pares_para_ia_por_tabla' = <<>>
    /\ llamadas_ia' = <<>>
    /\ respuesta_ia' = SinRespuesta
    /\ resultados_ia_por_tabla' = <<>>
    /\ todos_los_resultados' = <<>>
    /\ contenido_total' = <<>>
    /\ resultado' = [exito |-> FALSE]
    /\ UNCHANGED <<entrada, documento>>

\* The outcomes of validar_documento taken for the two runs: an exception, a
\* failure, or an answer (successful or not) about the first table.
RespuestasDosCorridas ==
    {r \in RespuestasIA : \A t \in DOMAIN r.resultados_por_tabla : t = 1}

\* A validador whose validar_documento is a function of its argument: asked
\* again for the same pares, it answers (or raises) as before.
validador_determinista ==
    IF salida # <<>> /\ salida[1].llamadas_ia = <<pares_para_ia_por_tabla>>
    THEN {salida[1].respuesta_ia}
    ELSE RespuestasDosCorridas

NextDosCorridas ==
    \/ Paso1
    \/ Paso1_5
    \/ \E r \in validador_determinista : Paso2Llamar(r)
    \/ Paso2SinLlamada
    \/ \E ok \in BOOLEAN : Paso3(ok)
    \/ Repetir

SpecDosCorridas == InitDosCorridas /\ [][NextDosCorridas]_vars

(***************************************************************************)
(* ValidadorNumeros.validar_pares                                          *)
(***************************************************************************)
\* An element of a list of the response: a dict with the keys of a result,
\* or something that is not a dict.
ElementoDict(i, v) ==
    [es_dict |-> TRUE, id |-> i, valor |-> v, confianza |-> "alta", razonamiento |-> "ia"]

ElementoNoDict == [es_dict |-> FALSE]

ElementosJSON ==
    {ElementoDict(i, v) : i \in IdsCampo, v \in {Some(7)}} \cup {ElementoNoDict}

\* The values of the keys of a JSON object, in the order of the keys: a list
\* or something else.
ValoresJSON ==
    {[es_lista |-> FALSE, elementos |-> <<>>]}
    \cup {[es_lista |-> TRUE, elementos |-> l] : l \in SeqsHasta(ElementosJSON, 1)}

\* response.choices[0].message.content: None, a text that is not JSON, or
\* the JSON text of a scalar, of a list or of an object.
ContenidosCliente ==
    {[clase |-> "None"], [clase |-> "invalido"], [clase |-> "escalar"]}
    \cup {[clase |-> "list", elementos |-> l] : l \in SeqsHasta(ElementosJSON, MaxIA)}
    \cup {[clase |-> "dict", valores |-> vs] : vs \in SeqsHasta(ValoresJSON, MaxIA)}

\* self.client: create raises (timeout, HTTP error), or returns a response
\* with some content.
Clientes ==
    {[falla |-> TRUE, contenido |-> [clase |-> "None"]]}
    \cup {[falla |-> FALSE, contenido |-> c] : c \in ContenidosCliente}

\* The pares handed to validar_pares.
ParesDeValidar ==
    {[id |-> <<"9","4">>, contenidos |-> << <<"5","4","5">> >>],
     [id |-> <<"9","6">>, contenidos |-> << <<"S","e","l","c","a","r","t","a">>, <<"6","0">> >>],
     [id |-> <<"9","6">>, contenidos |-> << <<"b","e","n","t","e">>, <<"2","0">> >>]}

EntradasValidarPares ==
    {[fn |-> "validar_pares", pares |-> ps, cliente |-> c] :
        ps \in SeqsHasta(ParesDeValidar, MaxPares), c \in Clientes}

\* mensaje_usuario: one numbered entry per par, with its id and its contenidos.
mensaje_usuario(pares) ==
    [i \in 1..Len(pares) |->
        [entrada |-> i, id |-> pares[i].id, contenidos |-> pares[i].contenidos]]

Lanza(clase) == [excepcion |-> <<clase>>, resultados |-> <<>>]

Devuelve(resultados) == [excepcion |-> None, resultados |-> resultados]

\* The list of results of the parsed response: of an object, the value of
\* its first key that holds a list; a list itself; otherwise nothing.
extraer_lista(contenido) ==
    IF contenido.clase = "dict"
    THEN IF SelectSeq(contenido.valores, LAMBDA v : v.es_lista) = <<>> THEN <<>>
         ELSE SelectSeq(contenido.valores, LAMBDA v : v.es_lista)[1].elementos
    ELSE IF contenido.clase = "list" THEN contenido.elementos
    ELSE <<>>

\* After the list is extracted, r.get(...) on every element of it.
mostrar(resultados) ==
    IF \E k \in 1..Len(resultados) : ~resultados[k].es_dict
    THEN Lanza("AttributeError")
    ELSE Devuelve(resultados)

\* The body of the try block: the request, json.loads, the list, the report.
cuerpo_try(cliente) ==
    IF cliente.falla THEN Lanza("TimeoutError")
    ELSE IF cliente.contenido.clase = "None" THEN Lanza("TypeError")
    ELSE IF cliente.contenido.clase = "invalido" THEN Lanza("JSONDecodeError")
    ELSE mostrar(extraer_lista(cliente.contenido))

\* Handlers that catch json.JSONDecodeError only.
capturada_solo_json(clase) == clase = "JSONDecodeError"

\* except json.JSONDecodeError ... except Exception: every class raised in
\* the body derives from Exception.
capturada(clase) == clase \in {"JSONDecodeError", "TimeoutError", "TypeError", "AttributeError"}

\* The outcome of the try statement: what the body returns, or [] from a
\* handler, or the exception that no handler catches.
con_manejadores(cuerpo) ==
    IF cuerpo.excepcion = None THEN [retorno |-> cuerpo.resultados, propagada |-> None]
    ELSE IF capturada(cuerpo.excepcion[1]) THEN [retorno |-> <<>>, propagada |-> None]
    ELSE [retorno |-> <<>>, propagada |-> cuerpo.excepcion]

\* validar_pares(pares): what it returns (or lets through) and the requests
\* it has sent to the client.
validar_pares(pares, cliente) ==
    IF pares = <<>>
    THEN [retorno |-> <<>>, propagada |-> None, peticiones |-> <<>>]
    ELSE [retorno |-> con_manejadores(cuerpo_try(cliente)).retorno,
          propagada |-> con_manejadores(cuerpo_try(cliente)).propagada,
          peticiones |-> <<mensaje_usuario(pares)>>]

InitValidarPares == entrada \in EntradasValidarPares /\ salida = <<>> /\ ExportadorInactivo

LlamarValidarPares ==
    /\ entrada.fn = "validar_pares"
    /\ salida = <<>>
    /\ salida' = <<validar_pares(entrada.pares, entrada.cliente)>>
    /\ UNCHANGED <<entrada, pc, documento, resueltos, resultados_locales_por_tabla,
                   pares_para_ia_por_tabla, llamadas_ia, respuesta_ia,
                   resultados_ia_por_tabla, todos_los_resultados, contenido_total,
                   resultado>>

SpecValidarPares == InitValidarPares /\ [][LlamarValidarPares]_vars

(***************************************************************************)
(* limpiar_texto (limpieza.py) and formatear_tabla_generica                *)
(* (exportador_regex.py)                                                   *)
(***************************************************************************)
\* The marks of Azure and the captions removed from a cell; the four symbols
\* (white circle, white square, check mark, em dash) are written by code point.
ruido ==
    << <<":","u","n","s","e","l","e","c","t","e","d",":">>,
       <<":","s","e","l","e","c","t","e","d",":">>,
       <<"s","e","l","e","c","t","e","d">>,
       <<"u","n","s","e","l","e","c","t","e","d">>,
       <<"U+25CB">>,
       <<"U+25A1">>,
       <<"U+2713">>,
       <<"U+2014">>,
       <<"(","C","o","n"," ","l","e","t","r","a",")">>,
       <<"(","C","o","n"," ","n","ú","m","e","r","o",")">>,
       <<"(","C","o","n"," ","n","u","m","e","r","a",")">>,
       <<"@">>,
       <<"P","e","r","s","o","n","a","s"," ","q","u","e"," ","v","o","t","a","r","o","n">>,
       <<"R","e","p","r","e","s","e","n","t","a","n","t","e","s">>,
       <<"T","o","t","a","l"," ","d","e"," ","p","e","r","s","o","n","a","s">> >>

\* s.replace(r, ""): the occurrences of r, found from left to right, removed.
RECURSIVE replace_con_vacio(_, _)
replace_con_vacio(s, r) ==
    IF Len(s) < Len(r) THEN s
    ELSE IF SubSeq(s, 1, Len(r)) = r
    THEN replace_con_vacio(SubSeq(s, Len(r) + 1, Len(s)), r)
    ELSE <<Head(s)>> \o replace_con_vacio(Tail(s), r)

RECURSIVE quitar_ruido(_, _)
quitar_ruido(s, k) ==
    IF k > Len(ruido) \/ s = <<>> THEN s
    ELSE quitar_ruido(replace_con_vacio(s, ruido[k]), k + 1)

\* s.strip(" .-_,")
CaracteresDeRecorte == {" ", ".", "-", "_", ","}

RECURSIVE lstrip_de(_, _)
lstrip_de(s, chars) == IF s # <<>> /\ Head(s) \in chars THEN lstrip_de(Tail(s), chars) ELSE s

RECURSIVE rstrip_de(_, _)
rstrip_de(s, chars) ==
    IF s # <<>> /\ s[Len(s)] \in chars THEN rstrip_de(SubSeq(s, 1, Len(s) - 1), chars) ELSE s

startswith(s, prefijo) == Len(s) >= Len(prefijo) /\ SubSeq(s, 1, Len(prefijo)) = prefijo

\* prefijo in s
contiene(s, parte) ==
    \E i \in 1..(Len(s) - Len(parte) + 1) : SubSeq(s, i, i + Len(parte) - 1) = parte

\* limpiar_texto up to the filter: the noise removed, the ends stripped.
sin_ruido(texto) == rstrip_de(lstrip_de(quitar_ruido(texto, 1), CaracteresDeRecorte), CaracteresDeRecorte)

\* The filter of long instructions, on the text without noise.
filtro_instrucciones(limpio) ==
    \/ startswith(lower(limpio), <<"c","o","p","i","e">>)
    \/ startswith(lower(limpio), <<"e","s","c","r","i","b","a">>)
    \/ contiene(lower(limpio), <<"d","e","l"," ","a","p","a","r","t","a","d","o">>)
    \/ contiene(lower(limpio), <<"d","e"," ","l","a"," ","h","o","j","a">>)
    \/ Len(limpio) > 60

limpiar_texto(texto) ==
    IF filtro_instrucciones(sin_ruido(texto)) THEN <<>> ELSE sin_ruido(texto)

\* celdas_por_fila: the rows that have a cell, the columns of a row that
\* have one, and the content kept for a row and a column, that of the last
\* such cell.
filas_de(cells) == {cells[k].row_index : k \in 1..Len(cells)}

columnas_de(cells, r) ==
    {cells[k].column_index : k \in {j \in 1..Len(cells) : cells[j].row_index = r}}

MaxDe(S) == CHOOSE x \in S : \A y \in S : y <= x
MinDe(S) == CHOOSE x \in S : \A y \in S : x <= y

contenido_de(cells, r, col) ==
    cells[MaxDe({k \in 1..Len(cells) :
                    cells[k].row_index = r /\ cells[k].column_index = col})].content

\* contenidos_limpios of a row: the columns whose cleaned content is not
\* empty, with it.
contenidos_limpios(cells, r) ==
    [col \in {c \in columnas_de(cells, r) : limpiar_texto(contenido_de(cells, r, c)) # <<>>} |->
        limpiar_texto(contenido_de(cells, r, col))]

\* texto_izq: the first content of the left half.
texto_izq_de(limpios, columnas_totales) ==
    IF {c \in DOMAIN limpios : 2 * c < columnas_totales} = {} THEN <<>>
    ELSE limpios[MinDe({c \in DOMAIN limpios : 2 * c < columnas_totales})]

\* texto_der: the last content of the row, if it lies in the right half.
texto_der_de(limpios, columnas_totales) ==
    IF 2 * MaxDe(DOMAIN limpios) >= columnas_totales
    THEN limpios[MaxDe(DOMAIN limpios)]
    ELSE <<>>

\* f"{ultima_clave_valida} : {texto_der}"; with no key the line is " : value".
linea_de(clave, valor) == clave \o <<" ", ":", " ">> \o valor

\* The key carried on, without replacement once there is one.
clave_tras_primera(ultima_clave_valida, texto_izq) ==
    IF ultima_clave_valida # <<>> THEN ultima_clave_valida ELSE texto_izq

\* if texto_izq: ultima_clave_valida = texto_izq
clave_tras(ultima_clave_valida, texto_izq) ==
    IF texto_izq # <<>> THEN texto_izq ELSE ultima_clave_valida

\* The lines after the row: one more unless the row has no right text or
\* it is "=" or "+".
lineas_tras(lineas, clave, texto_der) ==
    IF texto_der = <<>> \/ lower(texto_der) \in {<<"=">>, <<"+">>} THEN lineas
    ELSE Append(lineas, linea_de(clave, texto_der))

\* The loop over sorted(celdas_por_fila.keys()).
RECURSIVE formatear_filas(_, _, _, _)
formatear_fila(tabla, pendientes, ultima_clave_valida, lineas, limpios) ==
    IF DOMAIN limpios = {}
    THEN formatear_filas(tabla, pendientes \ {MinDe(pendientes)}, ultima_clave_valida, lineas)
    ELSE formatear_filas(tabla, pendientes \ {MinDe(pendientes)},
             clave_tras(ultima_clave_valida, texto_izq_de(limpios, tabla.column_count)),
             lineas_tras(lineas,
                         clave_tras(ultima_clave_valida, texto_izq_de(limpios, tabla.column_count)),
                         texto_der_de(limpios, tabla.column_count)))

formatear_filas(tabla, pendientes, ultima_clave_valida, lineas) ==
    IF pendientes = {} THEN lineas
    ELSE formatear_fila(tabla, pendientes, ultima_clave_valida, lineas,
                        contenidos_limpios(tabla.cells, MinDe(pendientes)))

\* "\n".join(lineas)
RECURSIVE join_lineas(_)
join_lineas(lineas) ==
    IF lineas = <<>> THEN <<>>
    ELSE IF Len(lineas) = 1 THEN lineas[1]
    ELSE lineas[1] \o <<"\n">> \o join_lineas(Tail(lineas))

formatear_tabla_generica(tabla_azure) ==
    join_lineas(formatear_filas(tabla_azure, filas_de(tabla_azure.cells), <<>>, <<>>))

(***************************************************************************)
(* Calls on formatear_tabla_generica                                       *)
(***************************************************************************)
MaxFilas == 3

\* Cell contents: keys, instructions of each kind, a text of exactly 60
\* characters and one of 61, noise alone, values and the signs "=" and "+".
TextoPRI == <<"P","R","I">>
TextoPAN == <<"P","A","N",".">>
TextoPVEM == <<"P","V","E","M">>
TextoCopie == <<"C","o","p","i","e"," ","d","e","l"," ","a","p","a","r","t","a","d","o"," ","2">>
TextoEscriba == <<"E","S","C","R","I","B","A"," ","e","l"," ","t","o","t","a","l">>
TextoDeLaHoja == <<"T","o","t","a","l"," ","d","e"," ","l","a"," ","h","o","j","a">>
TextoDe60 == [i \in 1..60 |-> "x"]
TextoDe61 == [i \in 1..61 |-> "x"]
TextoSoloRuido == <<":","s","e","l","e","c","t","e","d",":"," ","@">>
Texto246 == <<"2","4","6">>
Texto54 == <<"(","C","o","n"," ","n","ú","m","e","r","o",")"," ","5","4">>
TextoIgual == <<"=">>
TextoMas == <<"+">>

Celda(col, contenido) == [column_index |-> col, content |-> contenido]

\* The rows of a table of four columns: the cells of a row, in the order
\* of tabla_azure.cells.
FilasPosibles ==
    {<<Celda(0, izq)>> : izq \in {TextoPRI, TextoPAN, TextoCopie, TextoDe61, TextoDe60}}
    \cup {<<Celda(3, der)>> : der \in {Texto246, TextoIgual, TextoDeLaHoja}}
    \cup {<<Celda(0, izq), Celda(3, der)>> :
            izq \in {TextoPRI, TextoEscriba}, der \in {Texto246, TextoMas}}
    \cup {<<Celda(0, TextoSoloRuido), Celda(1, TextoPVEM), Celda(3, Texto54)>>,
          <<Celda(3, TextoCopie), Celda(0, TextoPAN), Celda(2, Texto246)>>,
          <<Celda(0, TextoPRI), Celda(1, Texto54)>>,
          <<Celda(0, TextoPRI), Celda(0, TextoPAN), Celda(3, Texto54)>>}

RECURSIVE celdas_de(_, _)
celdas_de(filas, k) ==
    IF k > Len(filas) THEN <<>>
    ELSE [i \in 1..Len(filas[k]) |->
             [row_index |-> k - 1, column_index |-> filas[k][i].column_index,
              content |-> filas[k][i].content]]
         \o celdas_de(filas, k + 1)

invertir(s) == [i \in 1..Len(s) |-> s[Len(s) + 1 - i]]

\* tabla_azure: column_count and cells, listed by rows or from the last
\* cell to the first.
TablasGenericas ==
    {[column_count |-> 4, cells |-> IF al_reves THEN invertir(celdas_de(fs, 1)) ELSE celdas_de(fs, 1)] :
        fs \in SeqsHasta(FilasPosibles, MaxFilas), al_reves \in BOOLEAN}

EntradasFormatear == {[fn |-> "formatear_tabla_generica", tabla |-> t] : t \in TablasGenericas}

InitFormatear == entrada \in EntradasFormatear /\ salida = <<>> /\ ExportadorInactivo

LlamarFormatear ==
    /\ entrada.fn = "formatear_tabla_generica"
    /\ salida = <<>>
    /\ salida' = <<formatear_tabla_generica(entrada.tabla)>>
    /\ UNCHANGED <<entrada, pc, documento, resueltos, resultados_locales_por_tabla,
                   pares_para_ia_por_tabla, llamadas_ia, respuesta_ia,
                   resultados_ia_por_tabla, todos_los_resultados, contenido_total,
                   resultado>>

SpecFormatear == InitFormatear /\ [][LlamarFormatear]_vars

(***************************************************************************)
(* Two instances of _guardar_con_validacion whose steps interleave         *)
(***************************************************************************)
\* Each call of _guardar_con_validacion has its own locals and builds its
\* own ConvertidorTextoNumeros; the calls share the class attribute PALABRAS,
\* which no statement assigns to.  The variables hold the locals of the
\* instance that is running and salida those of the one that is waiting.
ParesDeInstancias ==
    {[id |-> <<"9","4">>, contenidos |-> << <<"C","i","e","n">>, <<"1","0","0">> >>],
     [id |-> <<"9","4">>, contenidos |-> << <<"5","4","5">> >>],
     [id |-> <<"9","6">>, contenidos |-> << <<"o","c","h","o","o">>, <<"8">> >>],
     [id |-> <<"9","6">>, contenidos |-> << <<"S","e","l","c","a","r","t","a">>, <<"6","0">> >>]}

\* The documents of the instances: one par in the first table, or a par of
\* field 94 followed by a par of field 96.
DocumentosDeInstancias ==
    {[num_tablas |-> MaxTablas, pares_por_tabla |-> (1 :> ps)] :
        ps \in {x \in SeqsHasta(ParesDeInstancias, MaxPares) :
                    /\ x # <<>>
                    /\ Len(x) = 2 => x[1].id = <<"9","4">> /\ x[2].id = <<"9","6">>}}

\* What validar_documento answers an instance: an exception, a failure, or
\* a success with a value for one field of the first table.
RespuestasDeInstancias ==
    {r \in RespuestasIA :
        /\ r.tiene_resultados => r.exito
        /\ \A t \in DOMAIN r.resultados_por_tabla :
              /\ t = 1
              /\ Len(r.resultados_por_tabla[t]) = 1
              /\ r.resultados_por_tabla[t][1].valor # None
              /\ strip(r.resultados_por_tabla[t][1].id) \in IdsCampo}

\* The locals of a call that has not started on a document.
MarcoInicial(doc) ==
    [pc |-> "paso1",
     documento |-> doc,
     resueltos |-> <<>>,
     resultados_locales_por_tabla |-> <<>>,
     pares_para_ia_por_tabla |-> <<>>,
     llamadas_ia |-> <<>>,
     respuesta_ia |-> SinRespuesta,
     resultados_ia_por_tabla |-> <<>>,
     todos_los_resultados |-> <<>>,
     contenido_total |-> <<>>,
     resultado |-> [exito |-> FALSE]]

\* The locals of the running call.
MarcoActual ==
    [pc |-> pc,
     documento |-> documento,
     resueltos |-> resueltos,
     resultados_locales_por_tabla |-> resultados_locales_por_tabla,
     pares_para_ia_por_tabla |-> pares_para_ia_por_tabla,
     llamadas_ia |-> llamadas_ia,
     respuesta_ia |-> respuesta_ia,
     resultados_ia_por_tabla |-> resultados_ia_por_tabla,
     todos_los_resultados |-> todos_los_resultados,
     contenido_total |-> contenido_total,
     resultado |-> resultado]

InitInstancias ==
    /\ entrada = [fn |-> "instancias", activa |-> 1]
    /\ \E doc \in DocumentosDeInstancias : salida = <<MarcoInicial(doc)>>
    /\ pc = "paso1"
    /\ documento \in DocumentosDeInstancias
    /\ resueltos = <<>>
    /\ resultados_locales_por_tabla = <<>>
    /\ pares_para_ia_por_tabla = <<>>
    /\ llamadas_ia = <<>>
    /\ respuesta_ia = SinRespuesta
    /\ resultados_ia_por_tabla = <<>>
    /\ todos_los_resultados = <<>>
    /\ contenido_total = <<>>
    /\ resultado = [exito |-> FALSE]

\* A dict of local results that the two calls would have in common.
locales_en_comun(marco) == resultados_locales_por_tabla

\* resultados_locales_por_tabla is a local of the call: the one the call
\* that resumes finds is its own.
locales_de(marco) == marco.resultados_locales_por_tabla

\* The running call is suspended and the waiting one resumes where it was.
Cambiar ==
    /\ entrada.fn = "instancias"
    /\ entrada' = [entrada EXCEPT !.activa = 3 - @]
    /\ salida' = <<MarcoActual>>
    /\ pc' = salida[1].pc
    /\ documento' = salida[1].documento
    /\ resueltos' = salida[1].resueltos
    /\ resultados_locales_por_tabla' = locales_de(salida[1])
    /\ pares_para_ia_por_tabla' = salida[1].pares_para_ia_por_tabla
    /\ llamadas_ia' = salida[1].llamadas_ia
    /\ respuesta_ia' = salida[1].respuesta_ia
    /\ resultados_ia_por_tabla' = salida[1].resultados_ia_por_tabla
    /\ todos_los_resultados' = salida[1].todos_los_resultados
    /\ contenido_total' = salida[1].contenido_total
    /\ resultado' = salida[1].resultado

NextInstancias ==
    \/ Paso1
    \/ Paso1_5
    \/ \E r \in RespuestasDeInstancias : Paso2Llamar(r)
    \/ Paso2SinLlamada
    \/ \E ok \in BOOLEAN : Paso3(ok)
    \/ Cambiar

SpecInstancias == InitInstancias /\ [][NextInstancias]_vars

(***************************************************************************)
(* Properties of validar_campo (SpecValidarCampo)                          *)
(***************************************************************************)
\* The digit evidence of a digit text: its digit characters read as a decimal
\* number, absent when it has none.
RECURSIVE ValorDecimal(_)
ValorDecimal(s) ==
    IF s = <<>> THEN 0
    ELSE 10 * ValorDecimal(SubSeq(s, 1, Len(s) - 1)) + DigitoValor(s[Len(s)])

EvidenciaDigito(d) ==
    LET solo == SelectSeq(d, LAMBDA c : c \in Digitos)
    IN  IF solo = <<>> THEN None ELSE Some(ValorDecimal(solo))

\* The letter text resolves: exactly, or approximately with confidence >= 0.60.
AlMenos060(fuzzy) == fuzzy.valor # None /\ 100 * fuzzy.conf >= 60 * Escala

Resuelve(texto_letra) ==
    convertir(texto_letra) # None \/ AlMenos060(convertir_fuzzy(texto_letra))

\* C1: when convertir gives a value v for the letter text, validar_campo
\* returns v with confidence 1.0 whatever the digit text; the method is
\* texto_exacto_coincide when the digit evidence equals v and
\* texto_exacto_prioridad when it differs or is absent.
C1_ExactoTienePrioridad ==
    entrada.fn = "validar_campo" /\ convertir(entrada.texto_letra) # None =>
        \A i \in 1..Len(salida) :
            /\ salida[i].res.valor = convertir(entrada.texto_letra)
            /\ salida[i].res.confianza = Escala
            /\ salida[i].res.metodo =
                   IF EvidenciaDigito(salida[i].texto_digito) = convertir(entrada.texto_letra)
                   THEN "texto_exacto_coincide" ELSE "texto_exacto_prioridad"

\* An exact letter text called with agreeing digits that need cleaning and
\* then with disagreeing digits.
C1_Testigo ==
    /\ entrada.fn = "validar_campo"
    /\ Len(salida) = 2
    /\ convertir(entrada.texto_letra) = Some(35)
    /\ salida[1].texto_digito = <<"0","3","5">>
    /\ salida[1].res.metodo = "texto_exacto_coincide"
    /\ salida[2].texto_digito = <<"5","4","4">>
    /\ salida[2].res.metodo = "texto_exacto_prioridad"
    /\ salida[2].res.valor = Some(35)

\* C2: for a letter text that resolves, any two calls of validar_campo with
\* different digit texts (absent included) return the same value.
C2_DigitoNoCambiaValor ==
    entrada.fn = "validar_campo" /\ Resuelve(entrada.texto_letra) =>
        \A i, j \in 1..Len(salida) : salida[i].res.valor = salida[j].res.valor

\* An approximate letter text called with agreeing and with disagreeing
\* digits: the method and the confidence differ, the value does not.
C2_Testigo ==
    /\ entrada.fn = "validar_campo"
    /\ Len(salida) = 2
    /\ convertir(entrada.texto_letra) = None
    /\ Resuelve(entrada.texto_letra)
    /\ salida[1].res.metodo = "fuzzy_coincide"
    /\ salida[2].res.metodo = "fuzzy_prioridad"
    /\ salida[2].texto_digito # <<>>
    /\ salida[1].res.confianza # salida[2].res.confianza
    /\ salida[1].res.valor = salida[2].res.valor

\* A confidence capped at a number of hundredths.
Tope(c, centesimas) ==
    IF 100 * c <= centesimas * Escala THEN c ELSE (centesimas * Escala) \div 100

\* The letter text has no exact value and an approximate one with confidence
\* >= 0.60.
SoloDifuso(texto_letra) ==
    convertir(texto_letra) = None /\ AlMenos060(convertir_fuzzy(texto_letra))

\* C11: when convertir gives nothing for the letter text and convertir_fuzzy
\* gives a value f with confidence c >= 0.60, validar_campo returns f; the
\* method is fuzzy_coincide with confidence min(c, 0.95) when the digit
\* evidence equals f, and fuzzy_prioridad with confidence min(c, 0.85)
\* otherwise.
C11_DifusoTienePrioridad ==
    entrada.fn = "validar_campo" /\ SoloDifuso(entrada.texto_letra) =>
        \A i \in 1..Len(salida) :
            /\ salida[i].res.valor = convertir_fuzzy(entrada.texto_letra).valor
            /\ IF EvidenciaDigito(salida[i].texto_digito) = convertir_fuzzy(entrada.texto_letra).valor
               THEN /\ salida[i].res.metodo = "fuzzy_coincide"
                    /\ salida[i].res.confianza = Tope(convertir_fuzzy(entrada.texto_letra).conf, 95)
               ELSE /\ salida[i].res.metodo = "fuzzy_prioridad"
                    /\ salida[i].res.confianza = Tope(convertir_fuzzy(entrada.texto_letra).conf, 85)

\* An approximate letter text of confidence above 0.95 called with agreeing
\* digits (capped at 0.95) and then without digits (capped at 0.85).
C11_Testigo ==
    /\ entrada.fn = "validar_campo"
    /\ Len(salida) = 2
    /\ SoloDifuso(entrada.texto_letra)
    /\ 100 * convertir_fuzzy(entrada.texto_letra).conf > 95 * Escala
    /\ salida[1].res.metodo = "fuzzy_coincide"
    /\ 100 * salida[1].res.confianza = 95 * Escala
    /\ salida[2].texto_digito = <<>>
    /\ salida[2].res.metodo = "fuzzy_prioridad"
    /\ 100 * salida[2].res.confianza = 85 * Escala
    /\ salida[2].res.valor = salida[1].res.valor

\* C12: when the letter text does not resolve (absent, unreadable, or
\* approximate with confidence < 0.60), validar_campo returns the digit
\* evidence with confidence 0.0 and method necesita_ia if there is digit
\* evidence, and a null value with confidence 0.0 and method sin_resultado if
\* there is none.
C12_SinTextoUtil ==
    entrada.fn = "validar_campo" /\ ~Resuelve(entrada.texto_letra) =>
        \A i \in 1..Len(salida) :
            salida[i].res =
                IF EvidenciaDigito(salida[i].texto_digito) # None
                THEN Campo(EvidenciaDigito(salida[i].texto_digito), 0, "necesita_ia")
                ELSE Campo(None, 0, "sin_resultado")

(***************************************************************************)
(* Properties of convertir (SpecConvertir)                                 *)
(***************************************************************************)
\* The tokens of a normalized string: its pieces between single spaces.
RECURSIVE Tokens(_)
Tokens(s) ==
    IF s = <<>> THEN <<>>
    ELSE LET k == IF \E i \in 1..Len(s) : s[i] = " "
                  THEN CHOOSE i \in 1..Len(s) : s[i] = " " /\ \A j \in 1..(i - 1) : s[j] # " "
                  ELSE Len(s) + 1
         IN  <<SubSeq(s, 1, k - 1)>> \o Tokens(SubSeq(s, k + 1, Len(s)))

RECURSIVE SumaDe(_)
SumaDe(toks) == IF toks = <<>> THEN 0 ELSE ValorDe(Head(toks)) + SumaDe(Tail(toks))

TodasEnLexico(toks) == \A i \in 1..Len(toks) : EnPALABRAS(toks[i])

\* Every token but the connective.
SinY(toks) == SelectSeq(toks, LAMBDA t : t # <<"y">>)

\* Token i is a connective that convertir removes: a "y" with a token before
\* and after it, whose preceding token was not itself removed.
RECURSIVE EsConectiva(_, _)
EsConectiva(toks, i) ==
    /\ toks[i] = <<"y">>
    /\ 1 < i /\ i < Len(toks)
    /\ ~EsConectiva(toks, i - 1)

RECURSIVE SinConectivasDesde(_, _)
SinConectivasDesde(toks, i) ==
    IF i > Len(toks) THEN <<>>
    ELSE (IF EsConectiva(toks, i) THEN <<>> ELSE <<toks[i]>>) \o SinConectivasDesde(toks, i + 1)

SinConectivas(toks) == SinConectivasDesde(toks, 1)

\* convertir was called on a normalized string that is not a Lexicon word.
CompuestoConvertido ==
    /\ entrada.fn = "convertir"
    /\ salida # <<>>
    /\ normalizar(entrada.texto) = entrada.texto
    /\ ~EnPALABRAS(entrada.texto)

\* C8 as stated: on a normalized string that is not a Lexicon word, convertir
\* returns the sum of the token values if and only if every token other than
\* "y" is a Lexicon word, and null otherwise (stated for strings with a token
\* other than "y").
C8_SumaSalvoTodaY ==
    CompuestoConvertido /\ SinY(Tokens(entrada.texto)) # <<>> =>
        salida[1] = IF TodasEnLexico(SinY(Tokens(entrada.texto)))
                    THEN Some(SumaDe(SinY(Tokens(entrada.texto))))
                    ELSE None

\* C8 amended: only a "y" standing between two tokens is removed (each
\* occurrence taken from left to right, so not the second of two in a row);
\* convertir returns the sum of the remaining tokens if and only if there is
\* one and all of them are Lexicon words, and null otherwise.
C8_SumaSalvoConectiva ==
    CompuestoConvertido =>
        salida[1] = IF SinConectivas(Tokens(entrada.texto)) # <<>>
                       /\ TodasEnLexico(SinConectivas(Tokens(entrada.texto)))
                    THEN Some(SumaDe(SinConectivas(Tokens(entrada.texto))))
                    ELSE None

\* "doscientos treinta y seis" converted to 236.
C8_Testigo ==
    /\ CompuestoConvertido
    /\ Len(Tokens(entrada.texto)) = 4
    /\ EsConectiva(Tokens(entrada.texto), 3)
    /\ salida = <<Some(236)>>

\* C9: convertir of a Lexicon word, and of any case or accent variant of it,
\* is the value of the word.
C9_Exactitud ==
    entrada.fn = "convertir" /\ entrada.de > 0 /\ salida # <<>> =>
        salida[1] = Some(PALABRAS[entrada.de].valor)

\* An upper-case accented variant of a Lexicon word converted to its value.
C9_Testigo ==
    /\ entrada.fn = "convertir" /\ entrada.de > 0
    /\ entrada.texto # PALABRAS[entrada.de].palabra
    /\ \E i \in 1..Len(entrada.texto) : entrada.texto[i] \in RangoDe(AcentuadasMay)
    /\ salida = <<Some(PALABRAS[entrada.de].valor)>>

\* C10: convertir never returns a value outside 0..999.
C10_Rango ==
    entrada.fn = "convertir" /\ salida # <<>> /\ salida[1] # None =>
        salida[1][1] \in 0..999

(***************************************************************************)
(* Properties of convertir_fuzzy and _fuzzy_palabra (SpecFuzzy)            *)
(***************************************************************************)
\* The tokens convertir_fuzzy works on: those of the normalized text, less
\* every connective "y" between two tokens.
FichasDe(texto) == SinConectivas(Tokens(normalizar(texto)))

\* A token on its own: the exact Lexicon value with confidence 1.0 if it is
\* a Lexicon word, else what _fuzzy_palabra makes of it.
FichaResuelta(tok) ==
    IF EnPALABRAS(tok) THEN Res(Some(ValorDe(tok)), Escala) ELSE _fuzzy_palabra(tok)

\* The sum of the values and the least of the confidences of resolved tokens.
RECURSIVE SumaResueltas(_)
SumaResueltas(resueltas) ==
    IF resueltas = <<>> THEN 0
    ELSE Head(resueltas).valor[1] + SumaResueltas(Tail(resueltas))

RECURSIVE MinimaConfianza(_)
MinimaConfianza(resueltas) ==
    IF resueltas = <<>> THEN Escala
    ELSE Min2(Head(resueltas).conf, MinimaConfianza(Tail(resueltas)))

\* C13: convertir_fuzzy returns (value, 1.0) when convertir gives a value;
\* otherwise, on a text of several tokens, it returns the sum of the token
\* values with the minimum of the token confidences when every token
\* resolves (exactly first, else by _fuzzy_palabra), and (null, 0.0) when
\* some token does not resolve.
SumaYMinimo(resueltas) ==
    IF \A i \in 1..Len(resueltas) : resueltas[i].valor # None
    THEN Res(Some(SumaResueltas(resueltas)), MinimaConfianza(resueltas))
    ELSE Res(None, 0)

C13_DifusoSumaYMinimo ==
    entrada.fn = "convertir_fuzzy" /\ salida # <<>> =>
        \A exacto \in {convertir(entrada.texto)}, toks \in {FichasDe(entrada.texto)} :
            /\ exacto # None => salida[1] = Res(exacto, Escala)
            /\ exacto = None /\ Len(toks) >= 2 =>
                  \A resueltas \in {[i \in 1..Len(toks) |-> FichaResuelta(toks[i])]} :
                      salida[1] = SumaYMinimo(resueltas)

\* "dosientos treinta y seiz": an exact token between two approximate ones of
\* confidence 0.90 and 0.75, converted to 236 with confidence 0.75.
C13_Testigo ==
    /\ entrada.fn = "convertir_fuzzy"
    /\ convertir(entrada.texto) = None
    /\ Len(FichasDe(entrada.texto)) = 3
    /\ EnPALABRAS(FichasDe(entrada.texto)[2])
    /\ 100 * FichaResuelta(FichasDe(entrada.texto)[1]).conf = 90 * Escala
    /\ 100 * FichaResuelta(FichasDe(entrada.texto)[3]).conf = 75 * Escala
    /\ salida = <<Res(Some(236), (75 * Escala) \div 100)>>

\* The best candidates of a token: none, or the one nearest of the Lexicon
\* words of similar length (token length / word length within [0.65, 1.50]),
\* the first in Lexicon order among equally near ones.
MejoresDe(candidatos) == IF candidatos = <<>> THEN {} ELSE {mejor_de(candidatos)}
MejorCandidato(tok) == UNION {MejoresDe(cs) : cs \in {candidatos_de(tok)}}

\* max(2, floor(0.35 * len(w)))
UmbralDe(w) == IF 35 * Len(w) >= 300 THEN (35 * Len(w)) \div 100 ELSE 2

MismaHuella(tok, w) ==
    Len(tok) = Len(w) /\ tok[1] = w[1] /\ tok[Len(tok)] = w[Len(w)]

\* max(0.50, 1 - d/len(w)), plus 0.10 up to 1.0 with the same fingerprint.
ConfianzaDe(tok, w, d) ==
    LET base == IF 2 * d >= Len(w) THEN Escala \div 2 ELSE Escala - (d * Escala) \div Len(w)
        bono == Escala \div 10
    IN  IF ~MismaHuella(tok, w) THEN base
        ELSE IF base + bono >= Escala THEN Escala
        ELSE base + bono

\* r is what _fuzzy_palabra returned for tok, m its best candidate.
AceptaSegunUmbral(tok, m, r) ==
    IF m.dist <= UmbralDe(m.ref_palabra)
    THEN r = Res(Some(m.ref_valor), ConfianzaDe(tok, m.ref_palabra, m.dist))
    ELSE r.valor = None \/ 100 * r.conf = 65 * Escala

\* C14: _fuzzy_palabra accepts its best candidate w at distance d only when
\* d <= max(2, floor(0.35 * len(w))); accepted, it returns the value of w
\* with confidence max(0.50, 1 - d/len(w)), raised by 0.10 and capped at 1.0
\* exactly when token and w have the same length, first and last letter.
C14_UmbralYConfianza ==
    entrada.fn = "_fuzzy_palabra" /\ salida # <<>> =>
        \A m \in MejorCandidato(entrada.palabra) :
            AceptaSegunUmbral(entrada.palabra, m, salida[1])

\* A ten-letter word with three letters misread inside: accepted at the
\* threshold floor(0.35 * 10) = 3, with confidence 1 - 3/10 + 0.10.
C14_Testigo ==
    /\ entrada.fn = "_fuzzy_palabra" /\ salida # <<>>
    /\ \E m \in MejorCandidato(entrada.palabra) :
          /\ m.dist = 3
          /\ Len(m.ref_palabra) = 10
          /\ MismaHuella(entrada.palabra, m.ref_palabra)
          /\ salida[1].valor = Some(m.ref_valor)
    /\ 100 * salida[1].conf = 80 * Escala

\* The Lexicon entries that share the fingerprint of a token.
CompartenHuella(tok) ==
    {n \in 1..Len(PALABRAS) : tok # <<>> /\ MismaHuella(tok, PALABRAS[n].palabra)}

PorHuella(tok, r) ==
    IF Cardinality(CompartenHuella(tok)) = 1
    THEN r = Res(Some(PALABRAS[CHOOSE n \in CompartenHuella(tok) : TRUE].valor),
                 (65 * Escala) \div 100)
    ELSE r = Res(None, 0)

RecurreAHuella(tok, m, r) ==
    IF m.dist > UmbralDe(m.ref_palabra)
    THEN PorHuella(tok, r)
    ELSE r.valor = Some(m.ref_valor) /\ 100 * r.conf # 65 * Escala

\* C15: the fingerprint fallback of _fuzzy_palabra is used only when the best
\* distance exceeds the threshold; then the result is (value, 0.65) if and
\* only if exactly one Lexicon entry has the token's length, first and last
\* letter, and (null, 0.0) when none or several have (even several of one
\* value).
C15_HuellaUnica ==
    entrada.fn = "_fuzzy_palabra" /\ salida # <<>> =>
        \A ms \in {MejorCandidato(entrada.palabra)} :
            IF ms = {} THEN salida[1] = Res(None, 0)
            ELSE \A m \in ms : RecurreAHuella(entrada.palabra, m, salida[1])

\* A token too far from every word whose fingerprint only one entry has.
C15_Testigo ==
    /\ entrada.fn = "_fuzzy_palabra" /\ salida # <<>>
    /\ \E m \in MejorCandidato(entrada.palabra) : m.dist > UmbralDe(m.ref_palabra)
    /\ Cardinality(CompartenHuella(entrada.palabra)) = 1
    /\ salida[1].valor # None
    /\ 100 * salida[1].conf = 65 * Escala

\* The corrupted words the claim names: resolved ones with their value and the
\* least confidence asked of them (in hundredths), and rejected ones.
EjemplosResueltos ==
    { <<<<"c","a","l","o","r","c","e">>, 14, 80>>,
      <<<<"v","e","i","n","i","s","i","n","c","o">>, 25, 80>>,
      <<<<"v","e","n","t","i","c","i","n","c","o">>, 25, 0>>,
      <<<<"o","c","h","o","d","e","u","t","o","s">>, 800, 0>>,
      <<<<"d","i","e","c","i","n","n","e","v","e">>, 19, 0>>,
      <<<<"s","i","n","c","u","e","n","t","a">>, 50, 0>>,
      <<<<"c","u","a","r","a","n","t","a">>, 40, 0>> }

EjemplosRechazados ==
    { <<"s","e","l","c","a","r","t","a">>,
      <<"t","r","e","i","v","i","l","a">>,
      <<"d","e","s","p","u","l","a">>,
      <<"q","u","i","n","i","t","s">> }

\* convertir_fuzzy was called; the token of its text when it has just one.
FuzzyConvertido == entrada.fn = "convertir_fuzzy" /\ salida # <<>>
FichaUnica(toks) == IF Len(toks) = 1 THEN {toks[1]} ELSE {}

EjemplosCumplidos(tok, r) ==
    /\ \A e \in EjemplosResueltos :
          tok = e[1] => r.valor = Some(e[2]) /\ 100 * r.conf >= e[3] * Escala
    /\ tok \in EjemplosRechazados => r = Res(None, 0)

\* The distance of a token to every Lexicon word, and the words nearest to it.
DistanciasDe(tok) == [n \in 1..Len(PALABRAS) |-> levenshtein(tok, PALABRAS[n].palabra)]
MasCercanas(ds) == {n \in DOMAIN ds : \A k \in DOMAIN ds : ds[n] <= ds[k]}
DentroDeUmbral(ds) == {n \in DOMAIN ds : ds[n] <= UmbralDe(PALABRAS[n].palabra)}

\* The claim read over the whole Lexicon, ds the distances of tok.
ToleranciaSobreLexico(tok, ds, r) ==
    /\ MasCercanas(ds) \cap DentroDeUmbral(ds) # {} =>
          \E n \in MasCercanas(ds) : r.valor = Some(PALABRAS[n].valor)
    /\ DentroDeUmbral(ds) = {} /\ Cardinality(CompartenHuella(tok)) # 1 => r = Res(None, 0)

\* C16 as stated: convertir_fuzzy on a single corrupted token names the
\* examples' results, gives a token whose nearest Lexicon word is within the
\* acceptance threshold that word's value, and gives (null, 0.0) to a token
\* with no Lexicon word within threshold and no unique fingerprint.
C16_ToleranciaLexico ==
    FuzzyConvertido =>
        \A tok \in FichaUnica(FichasDe(entrada.texto)) :
            /\ EjemplosCumplidos(tok, salida[1])
            /\ \A ds \in {DistanciasDe(tok)} : ToleranciaSobreLexico(tok, ds, salida[1])

\* The claim read over the best candidate, ms being none or the one.
ToleranciaSobreCandidato(tok, ms, r) ==
    /\ \A m \in ms : m.dist <= UmbralDe(m.ref_palabra) => r.valor = Some(m.ref_valor)
    /\ (\A m \in ms : m.dist > UmbralDe(m.ref_palabra))
          /\ Cardinality(CompartenHuella(tok)) # 1 => r = Res(None, 0)

\* C16 amended: the nearest word is the best candidate, that is the nearest of
\* the Lexicon words of similar length and the first of them in Lexicon
\* order; a token whose best candidate is within that word's threshold gets
\* its value, and a token whose best candidate is beyond its threshold (or
\* that has none) and whose fingerprint is not unique gets (null, 0.0); the
\* examples' results are as named.
C16_ToleranciaCandidato ==
    FuzzyConvertido =>
        \A tok \in FichaUnica(FichasDe(entrada.texto)) :
            /\ EjemplosCumplidos(tok, salida[1])
            /\ \A ms \in {MejorCandidato(tok)} : ToleranciaSobreCandidato(tok, ms, salida[1])

\* "Calorce" converted to 14 with confidence above 0.80.
C16_Testigo ==
    /\ FuzzyConvertido
    /\ FichasDe(entrada.texto) = << <<"c","a","l","o","r","c","e">> >>
    /\ entrada.texto[1] = "C"
    /\ salida[1].valor = Some(14)
    /\ 100 * salida[1].conf >= 80 * Escala

(***************************************************************************)
(* Properties of _guardar_con_validacion (Spec)                            *)
(***************************************************************************)
\* The arbitration of a candidate: validar_campo on its letter and digit
\* texts, each the empty text when absent.
TextoDe(opcional) == IF opcional = None THEN <<>> ELSE opcional[1]

ArbitrajeDeSeparado(sep) == validar_campo(TextoDe(sep[1]), TextoDe(sep[2]))

ArbitrajeDe(par) == ArbitrajeDeSeparado(_separar_letra_y_digito(par.contenidos))

\* Method neither needs-escalation nor unresolved, confidence >= 0.75.
CumpleCriterio(res) ==
    /\ res.metodo \notin {"necesita_ia", "sin_resultado"}
    /\ 100 * res.confianza >= 75 * Escala

AceptadoLocal(par) == CumpleCriterio(ArbitrajeDe(par))

IdsAceptados(pares) == {pares[k].id : k \in {i \in 1..Len(pares) : AceptadoLocal(pares[i])}}

\* C3: after paso 1.5 every candidate is in exactly one of two sets: it is
\* resolved locally if and only if its arbitration method is neither
\* necesita_ia nor sin_resultado and its confidence is >= 0.75 (0.75 included);
\* otherwise the candidate itself is in the batch for the IA under its table,
\* and the candidates of each table of the batch keep their relative order.
C3_Particion ==
    pc = "paso2" =>
        /\ DOMAIN pares_para_ia_por_tabla \subseteq DOMAIN documento.pares_por_tabla
        /\ \A t \in DOMAIN documento.pares_por_tabla :
              /\ Len(resueltos[t]) = Len(documento.pares_por_tabla[t])
              /\ \A k \in 1..Len(resueltos[t]) :
                    resueltos[t][k] <=> AceptadoLocal(documento.pares_por_tabla[t][k])
              /\ DOMAIN resultados_locales_por_tabla[t] = IdsAceptados(documento.pares_por_tabla[t])
              /\ Obtener(pares_para_ia_por_tabla, t, <<>>) =
                     SelectSeq(documento.pares_por_tabla[t], LAMBDA par : ~AceptadoLocal(par))

\* A table whose first candidate is accepted with confidence exactly 0.75 and
\* whose second, an unreadable word with a valid digit, is left for the IA.
C3_Testigo ==
    /\ pc = "paso2"
    /\ \E t \in DOMAIN documento.pares_por_tabla :
          /\ Len(documento.pares_por_tabla[t]) = 2
          /\ resueltos[t] = <<TRUE, FALSE>>
          /\ 100 * ArbitrajeDe(documento.pares_por_tabla[t][1]).confianza = 75 * Escala
          /\ ArbitrajeDe(documento.pares_por_tabla[t][2]) = Campo(Some(60), 0, "necesita_ia")
          /\ documento.pares_por_tabla[t][1].id \in DOMAIN resultados_locales_por_tabla[t]
          /\ pares_para_ia_por_tabla[t] = <<documento.pares_por_tabla[t][2]>>

\* Some candidate was left for the IA.
HayEscalados == \E t \in DOMAIN resueltos : \E k \in 1..Len(resueltos[t]) : ~resueltos[t][k]

EscaladosDe(t) ==
    SelectSeq([k \in 1..Len(resueltos[t]) |-> [par |-> documento.pares_por_tabla[t][k],
                                               resuelto |-> resueltos[t][k]]],
              LAMBDA e : ~e.resuelto)

\* C4: validar_documento is called at most once per document and never again
\* whatever it returns; once paso 2 is over it has been called exactly once,
\* with the candidates left of all the tables, when some candidate was left
\* for the IA, and not at all when every candidate was resolved locally.
C4_UnaSolaLlamada ==
    /\ Len(llamadas_ia) <= 1
    /\ pc \in {"paso1", "paso1_5", "paso2"} => llamadas_ia = <<>>
    /\ pc \in {"paso3", "retorno", "excepcion"} =>
          IF HayEscalados
          THEN /\ Len(llamadas_ia) = 1
               /\ \A t \in DOMAIN resueltos :
                     EscaladosDe(t) # <<>> =>
                        /\ t \in DOMAIN llamadas_ia[1]
                        /\ llamadas_ia[1][t] = [k \in 1..Len(EscaladosDe(t)) |-> EscaladosDe(t)[k].par]
               /\ \A t \in DOMAIN llamadas_ia[1] : EscaladosDe(t) # <<>>
          ELSE llamadas_ia = <<>>

\* One failed call that carried the candidates of two tables, not repeated.
C4_Testigo ==
    /\ pc = "retorno"
    /\ Len(llamadas_ia) = 1
    /\ DOMAIN llamadas_ia[1] = {1, 2}
    /\ ~respuesta_ia.exito

\* Paso 3 has merged the tables of a document with candidates.
Combinado ==
    /\ pc = "retorno"
    /\ DOMAIN documento.pares_por_tabla # {}
    /\ Len(todos_los_resultados) = documento.num_tablas

ResultadosDe(t) == IF t \in DOMAIN todos_los_resultados THEN todos_los_resultados[t] ELSE <<>>

IdsDe(pares) == {pares[k].id : k \in 1..Len(pares)}

\* The external results of a table, one per field id (ids compared trimmed; of
\* several results for an id the last one, at the place of the first).
ExternosDe(t) == ia_por_id_de(Obtener(resultados_ia_por_tabla, t, <<>>))

\* The result the merge owes a candidate: the local one if there is one,
\* else the external one for its id, else none.
DebidoA(t, id_campo) ==
    IF id_campo \in DOMAIN Obtener(resultados_locales_por_tabla, t, <<>>)
    THEN <<resultados_locales_por_tabla[t][id_campo]>>
    ELSE IF EnDict(ExternosDe(t), id_campo)
    THEN <<DeDict(ExternosDe(t), id_campo)>>
    ELSE <<>>

RECURSIVE DebidosDesde(_, _, _)
DebidosDesde(t, pares, k) ==
    IF k > Len(pares) THEN <<>>
    ELSE DebidoA(t, pares[k].id) \o DebidosDesde(t, pares, k + 1)

\* The external results of a table whose id is not an id of its candidates.
AjenosDe(t, pares) ==
    LET ajenos == SelectSeq(ExternosDe(t), LAMBDA e : e.clave \notin IdsDe(pares))
    IN  [k \in 1..Len(ajenos) |-> ajenos[k].r]

\* C5: after the merge each table lists, in the order of its candidates, the
\* local result of each field id if there is one and otherwise the external
\* result for that id, and after them the external results whose id is not
\* an id of the table's candidates.
C5_Combinacion ==
    Combinado =>
        \A t \in 1..documento.num_tablas :
            ResultadosDe(t) =
                DebidosDesde(t, Obtener(documento.pares_por_tabla, t, <<>>), 1)
                \o AjenosDe(t, Obtener(documento.pares_por_tabla, t, <<>>))

\* validar_documento was called and raised or reported an error, and
\* _guardar_con_validacion is over.
TerminadoConFallo ==
    /\ llamadas_ia # <<>>
    /\ pc \in {"retorno", "excepcion"}
    /\ respuesta_ia.excepcion \/ ~respuesta_ia.exito

\* C6: when validar_documento raises or reports an error, the pipeline still
\* returns, with every local result unchanged and every candidate left for
\* the IA present with a null value.
C6_FalloNoFatal ==
    TerminadoConFallo =>
        /\ pc = "retorno"
        /\ \A t \in DOMAIN documento.pares_por_tabla :
             \A k \in 1..Len(documento.pares_por_tabla[t]) :
                \E j \in 1..Len(ResultadosDe(t)) :
                    IF resueltos[t][k]
                    THEN ResultadosDe(t)[j] =
                             resultados_locales_por_tabla[t][documento.pares_por_tabla[t][k].id]
                    ELSE /\ strip(ResultadosDe(t)[j].id) = documento.pares_por_tabla[t][k].id
                         /\ ResultadosDe(t)[j].valor = None

\* C7: after the merge every candidate has exactly one result; a candidate
\* with neither a local nor an external result has one with a null value.
C7_UnResultadoPorCandidato ==
    Combinado =>
        \A t \in DOMAIN documento.pares_por_tabla :
            /\ Len(SelectSeq(ResultadosDe(t),
                             LAMBDA r : strip(r.id) \in IdsDe(documento.pares_por_tabla[t])))
                   = Len(documento.pares_por_tabla[t])
            /\ \A k \in 1..Len(documento.pares_por_tabla[t]) :
                  DebidoA(t, documento.pares_por_tabla[t][k].id) = <<>> =>
                      \E j \in 1..Len(ResultadosDe(t)) :
                          /\ strip(ResultadosDe(t)[j].id) = documento.pares_por_tabla[t][k].id
                          /\ ResultadosDe(t)[j].valor = None

\* The results of the merged tables that validar_documento supplied.
Externos ==
    {todos_los_resultados[t][k] :
        <<t, k>> \in {x \in (1..MaxTablas) \X (1..(MaxPares + MaxIA)) :
                         /\ x[1] <= Len(todos_los_resultados)
                         /\ x[2] <= Len(todos_los_resultados[x[1]])
                         /\ todos_los_resultados[x[1]][x[2]].razonamiento # "[LOCAL]"}}

\* validar_documento was called, returned, and reported success.
LlamadaLograda ==
    /\ Len(llamadas_ia) = 1
    /\ ~respuesta_ia.excepcion
    /\ respuesta_ia.exito

\* C18: a result supplied by validar_documento is in the merged tables only
\* when the call was made and reported success; after a failed call the
\* merged tables hold no value that validar_documento supplied.
C18_ExternoSoloTrasExito == Externos # {} => LlamadaLograda

\* The field id occurs at two places of a sequence of results.
Repetido(resultados) ==
    \E j, k \in 1..Len(resultados) : j < k /\ resultados[j].id = resultados[k].id

\* C26: after the merge no field id occurs twice among the results of one
\* table, whatever the candidates and the response of validar_documento,
\* two candidates of a table with the same id and a response that repeats
\* an id included.
C26_IdUnaVez ==
    Combinado => \A t \in 1..documento.num_tablas : ~Repetido(ResultadosDe(t))

\* _fuzzy_palabra has returned.
FuzzyPalabraHecho == entrada.fn = "_fuzzy_palabra" /\ salida # <<>>

\* The result came from the edit-distance tier: a value, not at the 0.65 of
\* the fingerprint fallback.
PorDistancia(r) == r.valor # None /\ 100 * r.conf # 65 * Escala

\* The positions of the candidates at the least distance.
LosMasCercanos(cs) ==
    {i \in 1..Len(cs) : \A k \in 1..Len(cs) : cs[i].dist <= cs[k].dist}

\* Those of them that are within their own threshold.
PasanSuUmbral(cs) ==
    {i \in LosMasCercanos(cs) : cs[i].dist <= UmbralDe(cs[i].ref_palabra)}

\* The first position of a non-empty set of positions.
PrimeraPosicion(posiciones) == CHOOSE i \in posiciones : \A j \in posiciones : i <= j

\* r against the first of the nearest candidates alone.
SegunElPrimero(tok, cs, r) ==
    cs # <<>> =>
        \A i \in {PrimeraPosicion(LosMasCercanos(cs))} :
            IF i \in PasanSuUmbral(cs)
            THEN PorDistancia(r) /\ r.valor = Some(cs[i].ref_valor)
            ELSE ~PorDistancia(r) /\ PorHuella(tok, r)

\* C22: _fuzzy_palabra takes a candidate of least Levenshtein distance, the
\* first in Lexicon order among those at that distance, and tests the
\* threshold on that one alone: when it fails its threshold the token is
\* rejected by the edit-distance tier, even if another word at the same
\* distance is within its own threshold.
C22_PrimeroDeLosEmpatados ==
    FuzzyPalabraHecho =>
        \A cs \in {candidatos_de(entrada.palabra)} : SegunElPrimero(entrada.palabra, cs, salida[1])

\* "quinits": quince, the first word at distance 3, is beyond its threshold
\* 2; quinientos, at distance 3 too, is within its threshold 3; rejected.
C22_Testigo ==
    /\ FuzzyPalabraHecho
    /\ entrada.palabra = <<"q","u","i","n","i","t","s">>
    /\ \E cs \in {candidatos_de(entrada.palabra)} :
          /\ PasanSuUmbral(cs) # {}
          /\ PrimeraPosicion(LosMasCercanos(cs)) \notin PasanSuUmbral(cs)
          /\ cs[PrimeraPosicion(LosMasCercanos(cs))].ref_palabra = <<"q","u","i","n","c","e">>
    /\ salida[1] = Res(None, 0)

\* len(token)/len(w) within [0.65, 1.50], bounds included.
DeLongitudSimilar(tok, w) ==
    65 * Len(w) <= 100 * Len(tok) /\ 100 * Len(tok) <= 150 * Len(w)

SimilaresA(tok) == {n \in 1..Len(PALABRAS) : DeLongitudSimilar(tok, PALABRAS[n].palabra)}

\* The words of a set of Lexicon positions nearest to tok.
MasCercanasEn(tok, posiciones) ==
    {n \in posiciones :
        \A d \in {levenshtein(tok, PALABRAS[n].palabra)} :
            \A k \in posiciones : d <= levenshtein(tok, PALABRAS[k].palabra)}

\* r against the Lexicon words of similar length alone.
SoloSimilares(tok, similares, r) ==
    /\ similares = {} => r = Res(None, 0)
    /\ PorDistancia(r) =>
          \E n \in MasCercanasEn(tok, similares) :
              /\ r.valor = Some(PALABRAS[n].valor)
              /\ levenshtein(tok, PALABRAS[n].palabra) <= UmbralDe(PALABRAS[n].palabra)

\* C23: _fuzzy_palabra compares the token only with the Lexicon words w with
\* len(token)/len(w) in [0.65, 1.50], bounds included: a result of the
\* edit-distance tier is the value of a nearest word among those, within
\* its threshold, and with no Lexicon word within the ratio the result is
\* (null, 0.0).
C23_SoloLongitudSimilar ==
    FuzzyPalabraHecho =>
        \A similares \in {SimilaresA(entrada.palabra)} :
            SoloSimilares(entrada.palabra, similares, salida[1])

\* A token one and a half times as long as the word it is resolved to, which
\* is nearer to it than every word of similar length but for those of the
\* same value.
C23_Testigo ==
    /\ FuzzyPalabraHecho
    /\ PorDistancia(salida[1])
    /\ \E n \in SimilaresA(entrada.palabra) :
          /\ 2 * Len(entrada.palabra) = 3 * Len(PALABRAS[n].palabra)
          /\ salida[1].valor = Some(PALABRAS[n].valor)
          /\ \A k \in SimilaresA(entrada.palabra) :
                PALABRAS[k].valor # PALABRAS[n].valor =>
                    levenshtein(entrada.palabra, PALABRAS[n].palabra)
                        < levenshtein(entrada.palabra, PALABRAS[k].palabra)

\* C27: convertir_fuzzy returns a null value if and only if it returns
\* confidence 0.0, and with a value the confidence is within [0.50, 1.0].
C27_NuloSiiCero ==
    FuzzyConvertido =>
        /\ salida[1].valor = None <=> salida[1].conf = 0
        /\ salida[1].valor # None =>
              2 * salida[1].conf >= Escala /\ salida[1].conf <= Escala

\* A text of three tokens whose second resolves approximately and whose
\* third does not resolve: the confidence reached is dropped.
C27_Testigo ==
    /\ FuzzyConvertido
    /\ Len(FichasDe(entrada.texto)) = 3
    /\ FichaResuelta(FichasDe(entrada.texto)[2]).valor # None
    /\ FichaResuelta(FichasDe(entrada.texto)[2]).conf < Escala
    /\ FichaResuelta(FichasDe(entrada.texto)[3]).valor = None
    /\ salida[1] = Res(None, 0)

(***************************************************************************)
(* Properties of the fields of every kind (SpecCampos)                     *)
(***************************************************************************)
\* Paso 1.5 is just over: the flags, the local results and the batch for the
\* IA are set, and no later step changes them.
Prevalidado == pc = "paso2"

\* The pares of the document with their table and position.
ParesDelDocumento ==
    {[t |-> t, k |-> k, par |-> documento.pares_por_tabla[t][k]] :
        <<t, k>> \in {x \in (1..MaxTablas) \X (1..(MaxPares + 1)) :
                         /\ x[1] \in DOMAIN documento.pares_por_tabla
                         /\ x[2] <= Len(documento.pares_por_tabla[x[1]])}}

EnLote(e) ==
    \E j \in 1..Len(Obtener(pares_para_ia_por_tabla, e.t, <<>>)) :
        pares_para_ia_por_tabla[e.t][j] = e.par

\* A token that is not a Lexicon word and that _fuzzy_palabra resolved by the
\* fingerprint fallback: a value at confidence 0.65.
FichaPorHuella(tok) ==
    /\ ~EnPALABRAS(tok)
    /\ \E r \in {_fuzzy_palabra(tok)} : r.valor # None /\ 100 * r.conf = 65 * Escala

\* The letter text has a value by convertir_fuzzy, one of its tokens resolved
\* by the fingerprint fallback.
ValorPorHuella(texto_letra, fuzzy) ==
    /\ convertir(texto_letra) = None
    /\ fuzzy.valor # None
    /\ \E toks \in {FichasDe(texto_letra)} : \E i \in 1..Len(toks) : FichaPorHuella(toks[i])

\* What C24 says of one par, sep being its letter and digit text and fuzzy
\* the conversion of the letter text.
HuellaNoBasta(e, sep, fuzzy) ==
    ValorPorHuella(sep[1][1], fuzzy) =>
        /\ ~resueltos[e.t][e.k]
        /\ EnLote(e)
        /\ 100 * fuzzy.conf <= 65 * Escala
        /\ 100 * fuzzy.conf >= 60 * Escala =>
              \A res \in {ArbitrajeDeSeparado(sep)} :
                  /\ res.metodo \in {"fuzzy_coincide", "fuzzy_prioridad"}
                  /\ res.valor = fuzzy.valor
                  /\ res.confianza = fuzzy.conf
                  /\ 100 * res.confianza < 75 * Escala

\* C24: with _CONFIANZA_MINIMA 0.75, a field whose letter text got its value
\* through the fingerprint fallback, alone or as a token of a compound, has
\* confidence at most 0.65: when that is at least the 0.60 of validar_campo
\* the field keeps the value with a fuzzy method, and in every case it is
\* not accepted locally and its candidate is in the batch for the IA.
C24_HuellaSiempreEscalada ==
    Prevalidado =>
        \A e \in ParesDelDocumento :
            \A sep \in {_separar_letra_y_digito(e.par.contenidos)} :
                sep[1] # None =>
                    \A fuzzy \in {convertir_fuzzy(sep[1][1])} : HuellaNoBasta(e, sep, fuzzy)

\* "treinta y nxxxe" with the digits 39: 39 by fuzzy_coincide at 0.65, left
\* for the IA.
C24_Testigo ==
    /\ Prevalidado
    /\ documento.pares_por_tabla[1] =
          << [id |-> <<"9","4">>,
              contenidos |-> << <<"t","r","e","i","n","t","a"," ","y"," ","n","x","x","x","e">>,
                                <<"3","9">> >>] >>
    /\ ArbitrajeDe(documento.pares_por_tabla[1][1]) =
          Campo(Some(39), (65 * Escala) \div 100, "fuzzy_coincide")
    /\ resueltos[1] = <<FALSE>>
    /\ resultados_locales_por_tabla[1] = <<>>
    /\ pares_para_ia_por_tabla[1] = documento.pares_por_tabla[1]

\* The value convertir_fuzzy gives for the letter text of a par: None without
\* a letter text.
ValorDeLasLetras(par) ==
    UNION {IF sep[1] = None THEN {None} ELSE {convertir_fuzzy(sep[1][1]).valor} :
              sep \in {_separar_letra_y_digito(par.contenidos)}}

\* The accepted pares of table t that carry a field id.
AceptadosCon(t, id_campo) ==
    {e \in ParesDelDocumento : e.t = t /\ e.par.id = id_campo /\ resueltos[e.t][e.k]}

\* What C25 says of one par, valores being the value of its letters.
SoloPorLetras(e, valores) ==
    IF valores = {None}
    THEN ~resueltos[e.t][e.k] /\ EnLote(e)
    ELSE resueltos[e.t][e.k] =>
            \E otro \in AceptadosCon(e.t, e.par.id) :
                resultados_locales_por_tabla[e.t][e.par.id].valor \in ValorDeLasLetras(otro.par)

\* The local results of the merged tables come from the letters of a par of
\* their table with their id.
LocalesPorLetras ==
    \A t \in 1..Len(todos_los_resultados) :
        \A j \in 1..Len(todos_los_resultados[t]) :
            \A r \in {todos_los_resultados[t][j]} :
                r.razonamiento = "[LOCAL]" =>
                    /\ r.valor # None
                    /\ \E e \in ParesDelDocumento :
                          /\ e.t = t /\ e.par.id = r.id
                          /\ r.valor \in ValorDeLasLetras(e.par)

\* C25: a locally accepted result has the value convertir_fuzzy gives for
\* the letter text of its field; a candidate without a letter text, or whose
\* letter text does not resolve, is not accepted locally whatever its
\* digits are and is in the batch for the IA; so the local results of the
\* merged tables are all values of letter texts.
C25_SoloPorLetras ==
    /\ Prevalidado =>
          \A e \in ParesDelDocumento :
              \A valores \in {ValorDeLasLetras(e.par)} : SoloPorLetras(e, valores)
    /\ pc = "retorno" /\ todos_los_resultados # <<>> => LocalesPorLetras

\* An unreadable word with the digits 9 is left for the IA, "ochoo" with the
\* digit 7 is accepted as 8; the call fails and the merged table holds the 8
\* alone.
C25_Testigo ==
    /\ pc = "retorno"
    /\ DOMAIN documento.pares_por_tabla = {1}
    /\ documento.pares_por_tabla[1] =
          << [id |-> <<"9","4">>,
              contenidos |-> << <<"S","e","l","c","a","r","t","a">>, <<"9">> >>],
             [id |-> <<"9","6">>,
              contenidos |-> << <<"o","c","h","o","o">>, <<"7">> >>] >>
    /\ resueltos[1] = <<FALSE, TRUE>>
    /\ ArbitrajeDe(documento.pares_por_tabla[1][1]) = Campo(Some(9), 0, "necesita_ia")
    /\ Len(llamadas_ia) = 1
    /\ ~respuesta_ia.exito
    /\ Len(todos_los_resultados[1]) = 1
    /\ todos_los_resultados[1][1].valor = Some(8)

(***************************************************************************)
(* Properties of levenshtein (SpecLevenshtein)                             *)
(***************************************************************************)
\* The unit-cost edit distance by its recurrence: the least number of
\* insertions, deletions and substitutions of one character that turn s
\* into t.
RECURSIVE DistanciaDeEdicion(_, _)
DistanciaDeEdicion(s, t) ==
    IF s = <<>> THEN Len(t)
    ELSE IF t = <<>> THEN Len(s)
    ELSE IF Head(s) = Head(t) THEN DistanciaDeEdicion(Tail(s), Tail(t))
    ELSE 1 + Min2(DistanciaDeEdicion(Tail(s), Tail(t)),
                  Min2(DistanciaDeEdicion(Tail(s), t), DistanciaDeEdicion(s, Tail(t))))

\* C30: levenshtein(s1, s2) is the unit-cost edit distance of s1 and s2; it
\* is the same for (s2, s1), it is 0 exactly when s1 = s2, and it is the
\* length of the other string when one string is empty.
C30_DistanciaDeEdicion ==
    entrada.fn = "levenshtein" /\ salida # <<>> =>
        /\ salida[1] = DistanciaDeEdicion(entrada.s1, entrada.s2)
        /\ Len(salida) = 2 => salida[2] = salida[1]
        /\ salida[1] = 0 <=> entrada.s1 = entrada.s2
        /\ entrada.s1 = <<>> => salida[1] = Len(entrada.s2)
        /\ entrada.s2 = <<>> => salida[1] = Len(entrada.s1)

\* A shorter first string, so that the arguments are swapped: "abc" to
\* "cabc" is one insertion, whichever comes first.
C30_Testigo ==
    /\ entrada.fn = "levenshtein"
    /\ entrada.s1 = <<"a","b","c">>
    /\ entrada.s2 = <<"c","a","b","c">>
    /\ salida = <<1, 1>>

(***************************************************************************)
(* Properties of normalizar (SpecNormalizar)                               *)
(***************************************************************************)
\* Only the letters a-z and single spaces, none of them first or last.
FormaNormal(s) ==
    /\ \A i \in 1..Len(s) : s[i] \in LetrasAZ \cup {" "}
    /\ s # <<>> => s[1] # " " /\ s[Len(s)] # " "
    /\ \A i \in 1..(Len(s) - 1) : ~(s[i] = " " /\ s[i + 1] = " ")

\* C19: what normalizar returns holds only the letters a-z and single
\* spaces, with no space first or last and no two spaces together; the empty
\* string gives the empty string; and a string already of that form, the
\* result of normalizar among them, is returned unchanged.
C19_NormalizarForma ==
    entrada.fn = "normalizar" /\ salida # <<>> =>
        /\ FormaNormal(salida[1])
        /\ entrada.texto = <<>> => salida[1] = <<>>
        /\ FormaNormal(entrada.texto) => salida[1] = entrada.texto
        /\ Len(salida) = 2 => salida[2] = salida[1]

\* An upper-case accented letter, whitespace, a digit and a letter give two
\* words, and normalizing them again gives the same two words.
C19_Testigo ==
    /\ entrada.fn = "normalizar"
    /\ entrada.texto = <<"Ñ", "\t", "5", "a">>
    /\ salida = << <<"n", " ", "a">>, <<"n", " ", "a">> >>

(***************************************************************************)
(* Properties of _separar_letra_y_digito (SpecSeparar)                     *)
(***************************************************************************)
\* _separar_letra_y_digito has returned.
Separado == entrada.fn = "_separar_letra_y_digito" /\ salida # <<>>

\* The contents without the whitespace around them, the empty ones left out.
FichasDeCampo(contenidos) ==
    SelectSeq([i \in 1..Len(contenidos) |-> strip(contenidos[i])], LAMBDA c : c # <<>>)

CuantosEn(c, clase) == Cardinality({i \in 1..Len(c) : c[i] \in clase})

\* The positions of the tokens with a digit ratio of at least 0.70, and of
\* those with at least three letters.
ConDigitos(fichas) ==
    {i \in 1..Len(fichas) : 10 * CuantosEn(fichas[i], Digitos) >= 7 * Len(fichas[i])}

ConTresLetras(fichas) ==
    {i \in 1..Len(fichas) : CuantosEn(fichas[i], LetrasSeparar) >= 3}

\* The token at the first position of a set of positions, if any.
PrimeraEn(fichas, posiciones) ==
    IF posiciones = {} THEN None
    ELSE Some(fichas[CHOOSE i \in posiciones : \A j \in posiciones : i <= j])

\* The longest token among those at a set of positions, the earliest of the
\* longest, if any.
MasLargaEn(fichas, posiciones) ==
    PrimeraEn(fichas, {i \in posiciones :
                          \A j \in posiciones : Len(fichas[j]) <= Len(fichas[i])})

\* C20 as stated: texto_digito is the first token with a digit ratio of at
\* least 0.70 and texto_letra is the longest token with at least three
\* letters, the earliest on a tie; each is None when no token qualifies.
C20_LetraEntreTodas ==
    Separado =>
        \A fichas \in {FichasDeCampo(entrada.contenidos)} :
            /\ salida[1][2] = PrimeraEn(fichas, ConDigitos(fichas))
            /\ salida[1][1] = MasLargaEn(fichas, ConTresLetras(fichas))

\* The position of the token taken as texto_digito, if any.
TomadaComoDigito(fichas) ==
    {i \in ConDigitos(fichas) : \A j \in ConDigitos(fichas) : i <= j}

\* C20: texto_digito is the first token with a digit ratio of at least 0.70
\* and texto_letra is the longest token with at least three letters among
\* the tokens not taken as texto_digito, the earliest on a tie; each is None
\* when no token qualifies.
C20_LetraEntreLasDemas ==
    Separado =>
        \A fichas \in {FichasDeCampo(entrada.contenidos)} :
            /\ salida[1][2] = PrimeraEn(fichas, ConDigitos(fichas))
            /\ salida[1][1] = MasLargaEn(fichas, ConTresLetras(fichas) \ TomadaComoDigito(fichas))

\* A token of seven digits and three letters is taken as texto_digito and
\* not as texto_letra, which is the first of the two words of four letters.
C20_Testigo ==
    /\ Separado
    /\ entrada.contenidos = << <<"1","2","3","4","5","6","7","a","b","c">>,
                               <<"C","i","e","n">>, <<"o","c","h","o">> >>
    /\ salida[1] = << Some(<<"C","i","e","n">>),
                      Some(<<"1","2","3","4","5","6","7","a","b","c">>) >>

(***************************************************************************)
(* Properties of two runs (SpecDosCorridas)                                *)
(***************************************************************************)
\* A second run on the same document is over.
SegundaCorridaTerminada == salida # <<>> /\ pc \in {"retorno", "excepcion"}

ValidarParesHecho == entrada.fn = "validar_pares" /\ salida # <<>>

\* The pares that a request carries, in its order.
ParesEnviados(mensaje) ==
    [i \in 1..Len(mensaje) |-> [id |-> mensaje[i].id, contenidos |-> mensaje[i].contenidos]]

\* The request failed, or the content of the response is not JSON.
PeticionFallida ==
    entrada.cliente.falla \/ entrada.cliente.contenido.clase = "invalido"

\* C29: validar_pares raises nothing; given no pares it sends no request and
\* returns the empty list; given pares it sends exactly one request, which
\* carries all of them, and returns the empty list when the request fails or
\* the response is not valid JSON.
C29_UnaPeticionSinLanzar ==
    ValidarParesHecho =>
        /\ salida[1].propagada = None
        /\ IF entrada.pares = <<>>
           THEN salida[1].peticiones = <<>> /\ salida[1].retorno = <<>>
           ELSE /\ Len(salida[1].peticiones) = 1
                /\ ParesEnviados(salida[1].peticiones[1]) = entrada.pares
                /\ PeticionFallida => salida[1].retorno = <<>>

\* Two pares, a request that times out: one request with both pares, the
\* empty list returned.
C29_Testigo ==
    /\ ValidarParesHecho
    /\ Len(entrada.pares) = 2
    /\ entrada.cliente.falla
    /\ Len(salida[1].peticiones) = 1
    /\ Len(salida[1].peticiones[1]) = 2
    /\ salida[1].retorno = <<>>
    /\ salida[1].propagada = None

(***************************************************************************)
(* Properties of formatear_tabla_generica (SpecFormatear)                  *)
(***************************************************************************)
\* formatear_tabla_generica has returned.
Formateado == entrada.fn = "formatear_tabla_generica" /\ salida # <<>>

\* A text is an instruction: it starts with "copie" or "escriba", contains
\* "del apartado" or "de la hoja" (letters of either case), or is longer
\* than 60 characters.
EsInstruccion(t) ==
    \/ startswith(lower(t), <<"c","o","p","i","e">>)
    \/ startswith(lower(t), <<"e","s","c","r","i","b","a">>)
    \/ contiene(lower(t), <<"d","e","l"," ","a","p","a","r","t","a","d","o">>)
    \/ contiene(lower(t), <<"d","e"," ","l","a"," ","h","o","j","a">>)
    \/ Len(t) > 60

\* The columns of a row whose cell, without its noise, has a text that is
\* not an instruction.
ColumnasUtiles(tabla, r) ==
    {c \in columnas_de(tabla.cells, r) :
        /\ sin_ruido(contenido_de(tabla.cells, r, c)) # <<>>
        /\ ~EsInstruccion(sin_ruido(contenido_de(tabla.cells, r, c)))}

EnMitadIzquierda(tabla, c) == 2 * c < tabla.column_count

\* The row has a key: a usable cell in the left half; the key is the first.
TieneClave(tabla, r) == \E c \in ColumnasUtiles(tabla, r) : EnMitadIzquierda(tabla, c)

ClaveDeFila(tabla, r) ==
    sin_ruido(contenido_de(tabla.cells, r,
        MinDe({c \in ColumnasUtiles(tabla, r) : EnMitadIzquierda(tabla, c)})))

\* The row has a value: its last usable cell lies in the right half and is
\* neither "=" nor "+".
TieneValor(tabla, r) ==
    /\ ColumnasUtiles(tabla, r) # {}
    /\ ~EnMitadIzquierda(tabla, MaxDe(ColumnasUtiles(tabla, r)))
    /\ sin_ruido(contenido_de(tabla.cells, r, MaxDe(ColumnasUtiles(tabla, r))))
           \notin {<<"=">>, <<"+">>}

ValorDeFila(tabla, r) ==
    sin_ruido(contenido_de(tabla.cells, r, MaxDe(ColumnasUtiles(tabla, r))))

\* The key in force at a row: that of the last row, up to this one, that
\* has a key; empty when no row so far has one.
ClaveVigente(tabla, r) ==
    IF \E f \in filas_de(tabla.cells) : f <= r /\ TieneClave(tabla, f)
    THEN ClaveDeFila(tabla, MaxDe({f \in filas_de(tabla.cells) : f <= r /\ TieneClave(tabla, f)}))
    ELSE <<>>

\* One line "key : value" per row with a value, in ascending row index.
RECURSIVE LineasEsperadas(_, _)
LineasEsperadas(tabla, pendientes) ==
    IF pendientes = {} THEN <<>>
    ELSE (IF TieneValor(tabla, MinDe(pendientes))
          THEN <<linea_de(ClaveVigente(tabla, MinDe(pendientes)),
                          ValorDeFila(tabla, MinDe(pendientes)))>>
          ELSE <<>>)
         \o LineasEsperadas(tabla, pendientes \ {MinDe(pendientes)})

\* C28: formatear_tabla_generica returns, in ascending row index, one line
\* "key : value" for every row whose last cell lies in the right half, the
\* key being that of the most recent row, this one included, with a cell in
\* the left half; a cell that is an instruction is never a key and never
\* replaces the key carried from an earlier row.
C28_ValorBajoUltimaClave ==
    Formateado =>
        salida[1] = join_lineas(LineasEsperadas(entrada.tabla, filas_de(entrada.tabla.cells)))

\* A key, then a row with an instruction alone, then a row with a value
\* alone: the value is written under the key of the first row.
C28_Testigo ==
    /\ Formateado
    /\ entrada.tabla.cells =
          <<[row_index |-> 0, column_index |-> 0, content |-> TextoPRI],
            [row_index |-> 1, column_index |-> 0, content |-> TextoCopie],
            [row_index |-> 2, column_index |-> 3, content |-> Texto246]>>
    /\ salida[1] = TextoPRI \o <<" ", ":", " ">> \o Texto246

(***************************************************************************)
(* Properties of two interleaved instances (SpecInstancias)                *)
(***************************************************************************)
\* The merge of paso 3 for a document, given the local and the external
\* results.
TablasSolo(doc, locales, ia) ==
    [i \in 1..doc.num_tablas |->
        combinar_tabla(Obtener(doc.pares_por_tabla, i, <<>>),
                       Obtener(locales, i, <<>>), Obtener(ia, i, <<>>))]

CombinadoSolo(llamadas, tablas) ==
    [pc |-> "retorno",
     llamadas_ia |-> llamadas,
     todos_los_resultados |-> [i \in 1..Len(tablas) |-> tablas[i].resultados],
     contenido_total |->
        SelectSeq([i \in 1..Len(tablas) |->
                      [tabla |-> i, origen |-> tablas[i].origen, lineas |-> tablas[i].lineas]],
                  LAMBDA b : b.lineas # <<>>)]

SinCombinar(donde, llamadas) ==
    [pc |-> donde, llamadas_ia |-> llamadas, todos_los_resultados |-> <<>>,
     contenido_total |-> <<>>]

\* What _guardar_con_validacion does with a document, run alone from start
\* to end, when validar_documento, if called, answers respuesta.
SoloCon(doc, respuesta, pre) ==
    IF DOMAIN sin_tablas_vacias(pre) = {}
    THEN CombinadoSolo(<<>>, TablasSolo(doc, [t \in DOMAIN pre |-> pre[t].locales], <<>>))
    ELSE IF respuesta.excepcion
    THEN SinCombinar("excepcion", <<sin_tablas_vacias(pre)>>)
    ELSE IF ~respuesta.exito /\ \A t \in DOMAIN pre : pre[t].locales = <<>>
    THEN SinCombinar("retorno", <<sin_tablas_vacias(pre)>>)
    ELSE CombinadoSolo(<<sin_tablas_vacias(pre)>>,
                       TablasSolo(doc, [t \in DOMAIN pre |-> pre[t].locales],
                                  respuesta.resultados_por_tabla))

Solo(doc, respuesta) == SoloCon(doc, respuesta, prevalidar(doc.pares_por_tabla))

\* The running instance is over.
InstanciaTerminada == entrada.fn = "instancias" /\ pc \in {"retorno", "excepcion"}

====
